---------------------------- MODULE Spec2Model ----------------------------
(***************************************************************************)
(* RTTY / Baudot decoders of morria/Amateur-Digital (scripts/).            *)
(*                                                                         *)
(* Modelled: decode_with_pll and decode_simple (rtty_bitsync.py) and the   *)
(* framing loop of decode_rtty (decode_rtty.py), each as a state machine   *)
(* that takes one loop iteration per step.                                 *)
(*                                                                         *)
(* Numbers.  Correlation values are floats in [-1, 1]; the model holds     *)
(* them in hundredths (0.15 is 15, -1.0 is -100).  The PLL phase is a      *)
(* float in [0, 1); the model holds it as an integer count of              *)
(* 1/PhaseOne, PhaseOne being a multiple of every blocks_per_bit of        *)
(* PllBpbSet and of 20^MaxCorr, so that the nominal increment and up to    *)
(* MaxCorr successive gain-0.05 corrections are exact.                     *)
(***************************************************************************)
EXTENDS Integers, Sequences, FiniteSets, TLC

VARIABLES
    dec,          \* decoder of the running call: "pll", "rtty" or "simple"
    live,         \* TRUE: the array is unconstrained, each element is chosen when read
    corr,         \* correlations, the array the running call decodes (live: <<>>)
    bpb,          \* blocks_per_bit
    i,            \* loop index (0-based, as in the source)
    bit_phase,    \* PLL phase, in 1/PhaseOne
    prev_corr,    \* previous correlation value
    state,        \* framer state: "idle", "start_verify", "data", "stop"
    bit_count,
    accumulator,
    shift,        \* "letters" or "figures"
    text,         \* decoded characters, a sequence of one-character strings
    pc,           \* "loop": in a call's decode loop; "caller": between calls
    calls,        \* calls the caller still has to make
    results,      \* texts returned by the calls made so far
    codes,        \* history: codes of the frames completed by the running call
    ncorr,        \* history: phase corrections with a non-zero error so far
    why,          \* history: how the running call left its loop ("" while in it)
    origin,       \* the text or stream the input was built from (test harness)
    nbits,        \* history: bit decisions taken by the running call so far
    parked,       \* the frames of the decode runs that are not running now
    samples,      \* audio buffer of the front end
    block_size,
    hop_size,
    n_blocks,
    powers,       \* sliding_goertzel: the powers computed so far
    magnitudes,   \* compute_correlation_stream: the magnitudes computed so far
    correlations, \* compute_correlation_stream: the values computed so far
    mark_freq,
    space_freq,
    raised,       \* the exception a front-end call ended with ("" for none)
    crossings,    \* analyze_baud_rate: indices of the transitions found
    intervals,    \* analyze_baud_rate: times between transitions
    best_score,   \* analyze_baud_rate: score of best_baud
    best_baud,    \* analyze_baud_rate: the best rate so far
    best_pairs,   \* spectrogram_rtty: the pairs found
    spectrogram   \* spectrogram_rtty: the statistics of its bin pairs

vars == << dec, live, corr, bpb, i, bit_phase, prev_corr, state, bit_count,
           accumulator, shift, text, pc, calls, results, codes, ncorr, why,
           origin, nbits, parked, samples, block_size, hop_size, n_blocks,
           powers, magnitudes, correlations, mark_freq, space_freq, raised,
           crossings, intervals, best_score, best_baud, best_pairs,
                    spectrogram >>

\* best_baud = None; best_score = float('inf'), as a fraction
NoBaud == 0
Inf == << 1, 0 >>

\* the variables of the estimators
estim == << crossings, intervals, best_score, best_baud, best_pairs,
                    spectrogram >>

\* the variables of the front end (correlators and estimators)
front == << samples, block_size, hop_size, n_blocks, powers, magnitudes,
            correlations, mark_freq, space_freq, raised, estim >>

\* the front end before any of its functions has run
FrontIdle ==
    /\ samples = << >> /\ block_size = 1 /\ hop_size = 1 /\ n_blocks = 0
    /\ powers = << >> /\ magnitudes = << >> /\ correlations = << >>
    /\ mark_freq = 0 /\ space_freq = 0 /\ raised = ""
    /\ crossings = << >> /\ intervals = << >> /\ best_score = Inf
    /\ best_baud = NoBaud /\ best_pairs = << >>
    /\ spectrogram = { }

-----------------------------------------------------------------------------
(* Bounds of the model *)

\* live PLL runs read at most this many correlation samples
MaxSamples == 24
\* at most this many non-zero phase corrections are followed in one call
MaxCorr == 3

-----------------------------------------------------------------------------
(* ITA2 Baudot tables, index = code + 1; None is the empty string *)

None == ""

LETTERS ==
    << None, "E",  "\n", "A",  " ",  "S",  "I",  "U",
       "\r", "D",  "R",  "J",  "N",  "F",  "C",  "K",
       "T",  "Z",  "L",  "W",  "H",  "Y",  "P",  "Q",
       "O",  "B",  "G",  None, "M",  "X",  "V",  None >>

FIGURES ==
    << None, "3",  "\n", "-",  " ",  "'",  "8",  "7",
       "\r", "$",  "4",  "BEL", ",", "!",  ":",  "(",
       "5",  "+",  ")",  "2",  "#",  "6",  "0",  "1",
       "9",  "?",  "&",  None, ".",  "/",  ";",  None >>

LTRS == 31
FIGS == 27
ShiftCodes == {LTRS, FIGS}

TableOf(sh) == IF sh = "figures" THEN FIGURES ELSE LETTERS


-----------------------------------------------------------------------------
(* Decoding of a completed 5-bit code, the same text in decode_with_pll,   *)
(* decode_simple and decode_rtty.                                          *)

\* table = LETTERS if shift == 'letters' else FIGURES; ch = table[code]
Lookup(code, sh) == IF sh = "letters" THEN LETTERS[code + 1] ELSE FIGURES[code + 1]

\* faulty variant: the shift falls back to letters after every other code
NewShiftReset(code, sh) ==
    IF code = FIGS THEN "figures" ELSE "letters"

\* faulty variant: FIGS toggles the shift instead of setting it
NewShiftToggle(code, sh) ==
    IF code = LTRS THEN "letters"
    ELSE IF code = FIGS THEN (IF sh = "figures" THEN "letters" ELSE "figures")
    ELSE sh

\* faulty variant: a space returns the shift to letters (unshift-on-space)
NewShiftUnshiftOnSpace(code, sh) ==
    IF code = LTRS \/ code = 4 THEN "letters"
    ELSE IF code = FIGS THEN "figures"
    ELSE sh

\* the shift after decoding code
NewShift(code, sh) ==
    IF code = LTRS THEN "letters"
    ELSE IF code = FIGS THEN "figures"
    ELSE sh

\* faulty variant: the table entry is appended without the None test
NewTextUnchecked(code, sh, txt) ==
    IF code = LTRS \/ code = FIGS THEN txt
    ELSE Append(txt, Lookup(code, sh))

\* faulty variant: text = ch instead of text += ch
NewTextAssign(code, sh, txt) ==
    IF code = LTRS \/ code = FIGS THEN txt
    ELSE IF Lookup(code, sh) # None THEN << Lookup(code, sh) >>
    ELSE txt

\* the text after decoding code
NewText(code, sh, txt) ==
    IF code = LTRS \/ code = FIGS THEN txt
    ELSE IF Lookup(code, sh) # None THEN Append(txt, Lookup(code, sh))
    ELSE txt

-----------------------------------------------------------------------------
(* decode_with_pll *)

PllThreshold == 15
\* pll_gain = 0.05: a correction is the phase error divided by GainDiv
GainDiv == 20

RECURSIVE Pow(_, _)
Pow(b, n) == IF n = 0 THEN 1 ELSE b * Pow(b, n - 1)

\* blocks_per_bit values of the PLL runs
PllBpbSet == {1, 2, 4}
\* 1.0 of phase
PhaseOne == 4 * Pow(GainDiv, MaxCorr)

\* phase_inc = 1.0 / blocks_per_bit
PhaseInc(b) == PhaseOne \div b

\* faulty variant: a sample at the threshold counts as beyond it
IsTransitionAtThreshold(prev, c) ==
    \/ (prev >= PllThreshold /\ c <= -PllThreshold)
    \/ (prev <= -PllThreshold /\ c >= PllThreshold)

\* a mark/space transition between the previous sample and this one
IsTransition(prev, c) ==
    \/ (prev > PllThreshold /\ c < -PllThreshold)
    \/ (prev < -PllThreshold /\ c > PllThreshold)

\* faulty variant: the error is not wrapped to the nearest bit boundary
PhaseErrorUnwrapped(p) == p

\* phase_error = bit_phase; if phase_error > 0.5: phase_error -= 1.0
PhaseError(p) == IF 2 * p > PhaseOne THEN p - PhaseOne ELSE p

\* bit_phase -= phase_error * pll_gain, on a transition
Corrected(prev, c, p) ==
    IF IsTransition(prev, c) THEN p - (PhaseError(p) \div GainDiv) ELSE p

\* faulty variant: the phase advances by two increments per sample
AdvancedTwice(p, b) == p + 2 * PhaseInc(b)

\* bit_phase += phase_inc; if bit_phase < 0: bit_phase += 1.0
Advanced(p, b) ==
    IF p + PhaseInc(b) < 0 THEN p + PhaseInc(b) + PhaseOne ELSE p + PhaseInc(b)

\* faulty variant: a correlation of exactly 0 counts as mark
BitValZeroMark(c) == IF c >= 0 THEN 1 ELSE 0

\* bit_val = 1 if corr > 0 else 0
BitVal(c) == IF c > 0 THEN 1 ELSE 0

\* faulty variant: the first data bit is the most significant
OrBitMsbFirst(acc, bit, n) ==
    IF bit = 1 /\ (acc \div Pow(2, 4 - n)) % 2 = 0 THEN acc + Pow(2, 4 - n) ELSE acc

\* accumulator | (bit_val << bit_count)
OrBit(acc, bit, n) ==
    IF bit = 1 /\ (acc \div Pow(2, n)) % 2 = 0 THEN acc + Pow(2, n) ELSE acc

\* code = accumulator & 0x1F
Code(acc) == acc % 32

\* faulty variant: a space in idle starts the data bits at once, without the
\* second look at the start bit
FramerNoVerify(bit) ==
    LET same == [state |-> state, bit_count |-> bit_count,
                 accumulator |-> accumulator, shift |-> shift,
                 text |-> text, codes |-> codes]
    IN
    CASE state = "idle" ->
           IF bit = 0
           THEN [same EXCEPT !.state = "data", !.bit_count = 0,
                             !.accumulator = 0]
           ELSE same
      [] state = "start_verify" -> [same EXCEPT !.state = "idle"]
      [] state = "data" ->
           IF bit_count + 1 >= 5
           THEN [same EXCEPT !.accumulator = OrBit(accumulator, bit, bit_count),
                             !.state = "stop", !.bit_count = 0]
           ELSE [same EXCEPT !.accumulator = OrBit(accumulator, bit, bit_count),
                             !.bit_count = bit_count + 1]
      [] state = "stop" ->
           [same EXCEPT !.bit_count = bit_count + 1,
                        !.shift = NewShift(Code(accumulator), shift),
                        !.text = NewText(Code(accumulator), shift, text),
                        !.codes = Append(codes, Code(accumulator)),
                        !.state = "idle"]

\* The framer at a bit sampling point: the new values of the framer's
\* variables, given the bit decided.
Framer(bit) ==
    LET same == [state |-> state, bit_count |-> bit_count,
                 accumulator |-> accumulator, shift |-> shift,
                 text |-> text, codes |-> codes]
    IN
    CASE state = "idle" ->
           IF bit = 0
           THEN [same EXCEPT !.state = "start_verify", !.bit_count = 0,
                             !.accumulator = 0]
           ELSE same
      [] state = "start_verify" ->
           IF bit = 0
           THEN [same EXCEPT !.state = "data", !.bit_count = 0,
                             !.accumulator = 0]
           ELSE [same EXCEPT !.state = "idle"]
      [] state = "data" ->
           IF bit_count + 1 >= 5
           THEN [same EXCEPT !.accumulator = OrBit(accumulator, bit, bit_count),
                             !.state = "stop", !.bit_count = 0]
           ELSE [same EXCEPT !.accumulator = OrBit(accumulator, bit, bit_count),
                             !.bit_count = bit_count + 1]
      [] state = "stop" ->
           [same EXCEPT !.bit_count = bit_count + 1,
                        !.shift = NewShift(Code(accumulator), shift),
                        !.text = NewText(Code(accumulator), shift, text),
                        !.codes = Append(codes, Code(accumulator)),
                        !.state = "idle"]

\* One iteration of "for i in range(len(correlations))" on the sample c.
PllIter(c) ==
    LET p1 == Corrected(prev_corr, c, bit_phase)
        p2 == Advanced(p1, bpb)
        f  == IF p2 >= PhaseOne THEN Framer(BitVal(c))
              ELSE [state |-> state, bit_count |-> bit_count,
                    accumulator |-> accumulator, shift |-> shift,
                    text |-> text, codes |-> codes]
    IN
    /\ prev_corr' = c
    /\ bit_phase' = IF p2 >= PhaseOne THEN p2 - PhaseOne ELSE p2
    /\ ncorr' = IF p1 # bit_phase THEN ncorr + 1 ELSE ncorr
    /\ state' = f.state
    /\ bit_count' = f.bit_count
    /\ accumulator' = f.accumulator
    /\ shift' = f.shift
    /\ text' = f.text
    /\ codes' = f.codes
    /\ nbits' = IF p2 >= PhaseOne THEN nbits + 1 ELSE nbits
    /\ i' = i + 1

\* The locals of a decode call as the function sets them before its loop.
Locals ==
    /\ i = 0
    /\ bit_phase = 0
    /\ prev_corr = 0
    /\ state = "idle"
    /\ bit_count = 0
    /\ accumulator = 0
    /\ shift = "letters"
    /\ text = << >>
    /\ codes = << >>
    /\ ncorr = 0
    /\ nbits = 0
    /\ why = ""
    /\ pc = "loop"

StartLocals ==
    /\ i' = 0
    /\ bit_phase' = 0
    /\ prev_corr' = 0
    /\ state' = "idle"
    /\ bit_count' = 0
    /\ accumulator' = 0
    /\ shift' = "letters"
    /\ text' = << >>
    /\ codes' = << >>
    /\ ncorr' = 0
    /\ nbits' = 0
    /\ why' = ""
    /\ pc' = "loop"

\* Values a correlation sample takes in the live runs.  At one block per bit
\* the phase is 0 at every sample, a correction changes nothing, and the loop
\* reads only whether the sample is > 0: two values stand for all.
CorrVals == {-100, 0, 15, 100}
LiveVals(b) == IF b = 1 THEN {-100, 100} ELSE CorrVals

\* a non-zero correction can still be followed exactly
CanCorrect(c) ==
    IsTransition(prev_corr, c) /\ PhaseError(bit_phase) # 0 => ncorr < MaxCorr

\* decode_with_pll, loop body, on an array left unconstrained
PllLive ==
    /\ dec = "pll" /\ live /\ pc = "loop"
    /\ i < MaxSamples
    /\ \E c \in LiveVals(bpb) : CanCorrect(c) /\ PllIter(c)
    /\ UNCHANGED << dec, live, corr, bpb, pc, calls, results, why, origin,
                    parked, front >>

InitLive ==
    /\ dec = "pll" /\ live = TRUE /\ corr = << >>
    /\ bpb \in PllBpbSet
    /\ calls = << >> /\ results = << >> /\ origin = << >>
    /\ parked = << >> /\ FrontIdle
    /\ Locals

-----------------------------------------------------------------------------
(* The fixed-timing decoders: decode_rtty (from its state machine on) and  *)
(* decode_simple.  One action per way through the body of the while loop.  *)

RttyThreshold == 20
SimpleThreshold == 15

Threshold(d) == IF d = "rtty" THEN RttyThreshold ELSE SimpleThreshold

Max(a, b) == IF a >= b THEN a ELSE b
Min(a, b) == IF a <= b THEN a ELSE b

\* correlations[k], k counted from 0
At(c, k) == c[k + 1]

\* sum(correlations[lo:hi])
RECURSIVE SumSlice(_, _, _)
SumSlice(c, lo, hi) == IF lo >= hi THEN 0 ELSE At(c, lo) + SumSlice(c, lo + 1, hi)

\* number of elements of correlations[lo:hi] that are < 0
RECURSIVE CountNeg(_, _, _)
CountNeg(c, lo, hi) ==
    IF lo >= hi THEN 0
    ELSE (IF At(c, lo) < 0 THEN 1 ELSE 0) + CountNeg(c, lo + 1, hi)

\* faulty variant: the data bits are sampled where they begin
CenterAtEdge(start, n, b) == start + (1 + n) * b

\* int(start + (1.5 + bit_n) * blocks_per_bit)
Center(start, n, b) == start + (((3 + 2 * n) * b) \div 2)

\* faulty variant: the scan goes on where the frame started
FrameEndAtStart(start, b) == start

\* int(start + 7.5 * blocks_per_bit)
FrameEnd(start, b) == start + ((15 * b) \div 2)

\* end_start = int(start_block + blocks_per_bit)
EndStart(start, b) == start + b

\* np.mean(start_samples < 0) < 0.5 is false: the start bit is mostly space
StartHolds(c, start, b) ==
    2 * CountNeg(c, start, EndStart(start, b)) >= EndStart(start, b) - start

\* 1 if np.mean(correlations[max(0, ci-1):min(len, ci+2)]) > 0 else 0
AvgBit(c, ci) ==
    IF SumSlice(c, Max(0, ci - 1), Min(Len(c), ci + 2)) > 0 THEN 1 ELSE 0

\* len(bits) after the sampling loop: the data bits whose centre is in the array
NBits(c, start, b) == Cardinality({n \in 0..4 : Center(start, n, b) < Len(c)})

\* code assembled from the five data bits, LSB first
RECURSIVE Assemble(_, _, _, _)
Assemble(c, start, b, n) ==
    IF n >= 5 THEN 0
    ELSE AvgBit(c, Center(start, n, b)) * Pow(2, n) + Assemble(c, start, b, n + 1)

FrameCode(c, start, b) == Assemble(c, start, b, 0)

Fixed == dec \in {"rtty", "simple"} /\ ~live /\ pc = "loop"

\* a start bit candidate at i
Candidate == i < Len(corr) /\ At(corr, i) < -Threshold(dec)

\* decode_rtty only: the start bit was checked and held
Verified ==
    dec = "rtty" => EndStart(i, bpb) < Len(corr) /\ StartHolds(corr, i, bpb)

\* faulty variant: a frame under way when the array ends is flushed as a character
LeaveLoopFlush(reason) ==
    /\ pc' = "caller"
    /\ why' = reason
    /\ results' = Append(results, IF reason # "end" \/ state # "idle"
                                  THEN Append(text, "?") ELSE text)
    /\ UNCHANGED << dec, live, corr, bpb, i, bit_phase, prev_corr, state,
                    bit_count, accumulator, shift, text, calls, codes, ncorr,
                    origin, nbits, parked, front >>

\* the loop is left and text is returned
LeaveLoop(reason) ==
    /\ pc' = "caller"
    /\ why' = reason
    /\ results' = Append(results, text)
    /\ UNCHANGED << dec, live, corr, bpb, i, bit_phase, prev_corr, state,
                    bit_count, accumulator, shift, text, calls, codes, ncorr,
                    origin, nbits, parked, front >>

StayInLoop ==
    UNCHANGED << dec, live, corr, bpb, bit_phase, prev_corr, state, bit_count,
                 accumulator, pc, calls, results, ncorr, why, origin, nbits,
                 parked, front >>

\* while i < len(correlations) is false
FixEnd == Fixed /\ i >= Len(corr) /\ LeaveLoop("end")

\* correlations[i] >= -threshold: i += 1; continue
FixSkip ==
    /\ Fixed /\ i < Len(corr) /\ At(corr, i) >= -Threshold(dec)
    /\ i' = i + 1
    /\ UNCHANGED << shift, text, codes >>
    /\ StayInLoop

\* decode_rtty: end_start >= len(correlations): break
FixStartCut ==
    /\ Fixed /\ Candidate /\ dec = "rtty"
    /\ EndStart(i, bpb) >= Len(corr)
    /\ LeaveLoop("start_cut")

\* decode_rtty: the start bit is not mostly space: i += 1; continue
FixFalseStart ==
    /\ Fixed /\ Candidate /\ dec = "rtty"
    /\ EndStart(i, bpb) < Len(corr)
    /\ ~StartHolds(corr, i, bpb)
    /\ i' = i + 1
    /\ UNCHANGED << shift, text, codes >>
    /\ StayInLoop

\* a data bit centre is past the end: break
FixFrameCut ==
    /\ Fixed /\ Candidate /\ Verified
    /\ NBits(corr, i, bpb) < 5
    /\ LeaveLoop("frame_cut")

\* five data bits sampled: decode the code, skip to the next frame
FixFrame ==
    /\ Fixed /\ Candidate /\ Verified
    /\ NBits(corr, i, bpb) = 5
    /\ LET code == FrameCode(corr, i, bpb) IN
         /\ shift' = NewShift(code, shift)
         /\ text' = NewText(code, shift, text)
         /\ codes' = Append(codes, code)
    /\ i' = FrameEnd(i, bpb)
    /\ StayInLoop

FixedNext ==
    FixEnd \/ FixSkip \/ FixStartCut \/ FixFalseStart \/ FixFrameCut \/ FixFrame

-----------------------------------------------------------------------------
(* Input streams of the fixed-timing runs *)

\* blocks_per_bit values of the fixed-timing runs
FixBpbSet == {1, 2, 3}
\* arrays of arbitrary values have at most this many elements
MaxNoise == 7
\* silent streams have at most this many blocks
MaxSilence == 17
FixVals == {-100, -10, 100}
\* framed streams carry at most this many frames, of these codes
MaxFrames == 3
FrameCodes == {0, 1, 10, FIGS, LTRS}

\* n copies of v
Rep(v, n) == [k \in 1..n |-> v]

\* bit n (0 = least significant) of code
BitOf(code, n) == (code \div Pow(2, n)) % 2

Level(bit) == IF bit = 1 THEN 100 ELSE -100

\* one character on the line: start bit (space), five data bits LSB first,
\* stop (mark) of stopBlocks blocks; b blocks per bit
RenderFrame(code, b, stopBlocks) ==
    Rep(Level(0), b) \o Rep(Level(BitOf(code, 0)), b)
      \o Rep(Level(BitOf(code, 1)), b) \o Rep(Level(BitOf(code, 2)), b)
      \o Rep(Level(BitOf(code, 3)), b) \o Rep(Level(BitOf(code, 4)), b)
      \o Rep(Level(1), stopBlocks)

RECURSIVE Render(_, _, _)
Render(cs, b, stopBlocks) ==
    IF cs = << >> THEN << >>
    ELSE RenderFrame(Head(cs), b, stopBlocks) \o Render(Tail(cs), b, stopBlocks)

\* 1.5 stop bits
StopBlocks(b) == (3 * b) \div 2

SeqsUpTo(S, n) == UNION {[1..k -> S] : k \in 0..n}

Prefixes(s) == {SubSeq(s, 1, k) : k \in 0..Len(s)}

\* the fixed-timing decoder's frame length in blocks, stop included
FrameLen(b) == 6 * b + StopBlocks(b)

\* An arbitrary short array or a silent one (origin << >>), or the stream of
\* the code sequence origin cut anywhere in its last frame (a cut in an
\* earlier frame is a cut in the last frame of a shorter sequence).
FixInput(c, org, b) ==
    \/ org = << >> /\ c \in SeqsUpTo(FixVals, MaxNoise) \cup {Rep(0, n) : n \in 0..MaxSilence}
    \/ /\ org \in SeqsUpTo(FrameCodes, MaxFrames) \ {<< >>}
       /\ c \in Prefixes(Render(org, b, StopBlocks(b)))
       /\ Len(c) > (Len(org) - 1) * FrameLen(b)

InitFixed ==
    /\ dec \in {"rtty", "simple"} /\ live = FALSE
    /\ bpb \in FixBpbSet
    /\ origin \in SeqsUpTo(FrameCodes, MaxFrames)
    /\ FixInput(corr, origin, bpb)
    /\ calls = << >> /\ results = << >>
    /\ parked = << >> /\ FrontIdle
    /\ Locals

-----------------------------------------------------------------------------
(* decode_with_pll on a given array, and the caller's side of a call *)

PllArr ==
    /\ dec = "pll" /\ ~live /\ pc = "loop"
    /\ i < Len(corr)
    /\ CanCorrect(At(corr, i))
    /\ PllIter(At(corr, i))
    /\ UNCHANGED << dec, live, corr, bpb, pc, calls, results, why, origin,
                    parked, front >>

\* range(len(correlations)) is exhausted: return text
PllEnd == dec = "pll" /\ ~live /\ pc = "loop" /\ i >= Len(corr) /\ LeaveLoop("end")

\* faulty variant: the invert flag is ignored
PolarityIgnored(input, invert) == input

\* decode_rtty: if invert: corr = -corr, for every block
Polarity(input, invert) ==
    IF invert THEN [k \in 1..Len(input) |-> -input[k]] ELSE input

\* The caller makes its next call: the decoder's locals are set afresh.
Call ==
    /\ pc = "caller" /\ calls # << >>
    /\ dec' = Head(calls).dec
    /\ bpb' = Head(calls).bpb
    /\ corr' = Polarity(Head(calls).input, Head(calls).invert)
    /\ calls' = Tail(calls)
    /\ StartLocals
    /\ UNCHANGED << live, results, origin, parked, front >>

\* The caller before its first call.
Caller(cs, org) ==
    /\ pc = "caller" /\ calls = cs /\ results = << >> /\ origin = org
    /\ live = FALSE /\ dec = "" /\ bpb = 1 /\ corr = << >>
    /\ i = 0 /\ bit_phase = 0 /\ prev_corr = 0 /\ state = "idle"
    /\ bit_count = 0 /\ accumulator = 0 /\ shift = "letters"
    /\ text = << >> /\ codes = << >> /\ ncorr = 0 /\ why = ""
    /\ nbits = 0 /\ parked = << >> /\ FrontIdle

ACall(d, b, input, invert) == [dec |-> d, bpb |-> b, input |-> input, invert |-> invert]

-----------------------------------------------------------------------------
(* Input streams of the PLL runs on a given array *)

\* blocks_per_bit values of these runs
ArrBpbSet == {1, 2}
\* the streams are bit sequences of at most this many bits, cut anywhere
MaxBits == 11
\* each bit held for b blocks
RECURSIVE Stretch(_, _)
Stretch(bits, b) ==
    IF bits = << >> THEN << >>
    ELSE Rep(Level(Head(bits)), b) \o Stretch(Tail(bits), b)

Silences == {Rep(0, n) : n \in 0..MaxSilence}

PllInputs(b) ==
    UNION {Prefixes(Stretch(bits, b)) : bits \in [1..MaxBits -> {0, 1}]}
      \cup Silences

InitPllArr ==
    /\ dec = "pll" /\ live = FALSE
    /\ bpb \in ArrBpbSet
    /\ corr \in PllInputs(bpb)
    /\ calls = << >> /\ results = << >> /\ origin = << >>
    /\ parked = << >> /\ FrontIdle
    /\ Locals

-----------------------------------------------------------------------------
(* Specifications *)

\* decode_with_pll on unconstrained arrays; the fixed-timing decoders on
\* arbitrary short arrays and on framed streams cut anywhere
Init == InitLive \/ InitFixed
Next == PllLive \/ FixedNext
Spec == Init /\ [][Next]_vars

\* every decoder on given arrays, run to its return
InitArr == InitPllArr \/ InitFixed
NextArr == PllArr \/ PllEnd \/ FixedNext
SpecArr == InitArr /\ [][NextArr]_vars

-----------------------------------------------------------------------------
(* Round trip: a text is encoded, put on the line and given to              *)
(* decode_with_pll.                                                         *)

\* texts have at most this many characters
MaxText == 2
\* idle mark before and after the frames, in bits
MaxIdle == 1
TextChars == {"E", "R", "3", "4", " "}

InTable(t, ch) == \E k \in 1..32 : t[k] = ch
IndexOf(t, ch) == (CHOOSE k \in 1..32 : t[k] = ch) - 1

\* The codes of txt, the line being in shift sh: FIGS or LTRS goes before a
\* character that the table of the current shift does not hold.
RECURSIVE Encode(_, _)
Encode(txt, sh) ==
    IF txt = << >> THEN << >>
    ELSE LET ch == Head(txt)
             to == IF InTable(TableOf(sh), ch) THEN sh
                   ELSE IF sh = "letters" THEN "figures" ELSE "letters"
             pre == IF to = sh THEN << >>
                    ELSE IF to = "figures" THEN << FIGS >> ELSE << LTRS >>
         IN pre \o << IndexOf(TableOf(to), ch) >> \o Encode(Tail(txt), to)

HasShiftChange(txt) ==
    \E k \in 1..Len(Encode(txt, "letters")) : Encode(txt, "letters")[k] \in ShiftCodes

\* start bit, five data bits, one stop bit per code, b blocks each
Line(txt, b, lead, trail) ==
    Rep(Level(1), lead * b) \o Render(Encode(txt, "letters"), b, b)
      \o Rep(Level(1), trail * b)

InitRoundTrip ==
    \E txt \in SeqsUpTo(TextChars, MaxText) \ {<< >>}, b \in PllBpbSet,
       lead \in 0..MaxIdle, trail \in 0..MaxIdle :
        Caller(<< ACall("pll", b, Line(txt, b, lead, trail), FALSE) >>, txt)

NextRoundTrip == Call \/ PllArr \/ PllEnd
SpecRoundTrip == InitRoundTrip /\ [][NextRoundTrip]_vars

-----------------------------------------------------------------------------
(* "CQ" end to end through decode_rtty, in both polarities *)

\* blocks_per_bit when block_size = int(samples_per_bit / 4)
CqBpb == 4
\* idle blocks before and after the two characters
MaxLead == 8
MaxTrail == 2

CQ == << "C", "Q" >>

\* idle mark, then per character a start bit, five data bits and 1.5 stop
\* bits; with the tones swapped every block reads the other way
CqSignal(lead, trail, swapped) ==
    LET sig == Rep(Level(1), lead)
                 \o Render(Encode(CQ, "letters"), CqBpb, StopBlocks(CqBpb))
                 \o Rep(Level(1), trail)
    IN IF swapped THEN [k \in 1..Len(sig) |-> -sig[k]] ELSE sig

InitCQ ==
    \E lead \in 0..MaxLead, trail \in 0..MaxTrail, swapped \in BOOLEAN,
       invert \in BOOLEAN :
        Caller(<< ACall("rtty", CqBpb, CqSignal(lead, trail, swapped), invert) >>,
               [swapped |-> swapped, invert |-> invert, lead |-> lead])

NextCQ == Call \/ FixedNext
SpecCQ == InitCQ /\ [][NextCQ]_vars

-----------------------------------------------------------------------------
(* A stream given to decode_with_pll whole, then in two chunks *)

\* the stream is a bit sequence of this many bits
StreamBits == 8

InitStream ==
    \E b \in ArrBpbSet, bits \in [1..StreamBits -> {0, 1}] :
      \E cut \in 0..Len(Stretch(bits, b)) :
        LET c == Stretch(bits, b) IN
        Caller(<< ACall("pll", b, c, FALSE),
                  ACall("pll", b, SubSeq(c, 1, cut), FALSE),
                  ACall("pll", b, SubSeq(c, cut + 1, Len(c)), FALSE) >>, cut)

NextStream == Call \/ PllArr \/ PllEnd
SpecStream == InitStream /\ [][NextStream]_vars

-----------------------------------------------------------------------------
(* A stream given to a fixed-timing decoder cut short, then whole *)

\* framed streams of these runs carry at most this many frames
PairFrames == 2
PairVals == {-100, 100}

PairStreams(b) ==
    SeqsUpTo(PairVals, MaxNoise)
      \cup {Render(cs, b, StopBlocks(b)) : cs \in SeqsUpTo(FrameCodes, PairFrames)}

InitPrefix ==
    \E d \in {"rtty", "simple"}, b \in FixBpbSet :
      \E c \in PairStreams(b) :
        \E k \in 0..Len(c) :
          Caller(<< ACall(d, b, SubSeq(c, 1, k), FALSE), ACall(d, b, c, FALSE) >>, k)

NextPrefix == Call \/ FixedNext
SpecPrefix == InitPrefix /\ [][NextPrefix]_vars

-----------------------------------------------------------------------------
(* Properties *)

IsPrefix(s, t) == Len(s) <= Len(t) /\ SubSeq(t, 1, Len(s)) = s

Last(s) == s[Len(s)]

\* codes that never produce a character
Silent == {0, LTRS, FIGS}

\* The shift in force for the k-th code of cs, read off the history alone:
\* that of the latest shift code before it, letters if there is none.
ShiftAt(cs, k) ==
    LET before == {j \in 1..(k - 1) : cs[j] \in ShiftCodes} IN
    IF before = {} THEN "letters"
    ELSE LET j == CHOOSE m \in before : \A n \in before : n <= m IN
         IF cs[j] = FIGS THEN "figures" ELSE "letters"

\* The characters the code history cs stands for.
RECURSIVE Translate(_, _)
Translate(cs, k) ==
    IF k = 0 THEN << >>
    ELSE IF cs[k] \in ShiftCodes \/ TableOf(ShiftAt(cs, k))[cs[k] + 1] = None
         THEN Translate(cs, k - 1)
         ELSE Append(Translate(cs, k - 1), TableOf(ShiftAt(cs, k))[cs[k] + 1])

\* C1: shift persistence.  In every decoder the character of each decoded
\* code other than 27 and 31 comes from the table selected by the latest
\* shift code decoded before it (FIGURES after 27, LETTERS after 31 or when
\* there is none), however many frames lie in between; the shift variable is
\* that shift.
C1_ShiftPersists ==
    /\ text = Translate(codes, Len(codes))
    /\ shift = ShiftAt(codes, Len(codes) + 1)

\* FIGS, a digit code, then a letter code without LTRS: the third code came
\* out as its FIGURES character
C1_Witness ==
    dec = "pll" /\ codes = << FIGS, 1, 10 >> /\ text = << "3", "4" >>

\* C6: the code of a completed frame is in 0..31; the text holds one
\* character for every completed frame whose code is not 0, 27 or 31 and
\* none for the others, and no entry of the text is the None marker.
C6_InvalidDropped ==
    /\ \A k \in 1..Len(codes) : codes[k] \in 0..31
    /\ Len(text) = Cardinality({k \in 1..Len(codes) : codes[k] \notin Silent})
    /\ \A k \in 1..Len(text) : text[k] # None

\* code 0 was dropped in the figures shift, between FIGS and a character
C6_Witness ==
    codes = << FIGS, 0, 1 >> /\ text = << "3" >>

\* a frame is completed by this step, with this code
Decoded(code) == codes' = Append(codes, code)

\* C7: decoding 31 leaves the shift at letters and decoding 27 leaves it at
\* figures, whatever it was, and neither appends to the text.
C7_ShiftCodes ==
    [][ /\ Decoded(LTRS) => shift' = "letters" /\ text' = text
        /\ Decoded(FIGS) => shift' = "figures" /\ text' = text ]_vars

\* FIGS twice, then LTRS
C7_Witness ==
    codes = << FIGS, FIGS, LTRS >> /\ shift = "letters" /\ text = << >>

\* C9: in decode_with_pll the text after one more sample extends the text
\* before it.
C9_PllAppendOnly ==
    [][ dec = "pll" /\ i' = i + 1 => IsPrefix(text, text') ]_vars

C9_Witness ==
    dec = "pll" /\ bpb = 2 /\ Len(text) = 1 /\ ncorr > 0

\* the running call has returned
Returned == pc = "caller" /\ results # << >>

\* the array ended inside a frame: the PLL framer had left idle, or a
\* fixed-timing decoder had a start bit and ran out of blocks
MidFrame ==
    \/ dec = "pll" /\ state # "idle"
    \/ dec \in {"rtty", "simple"} /\ why \in {"start_cut", "frame_cut"}

\* frames of a framed stream of len blocks whose five data-bit centres all
\* lie in the stream
WholeFrames(len, b) ==
    Cardinality({j \in 0..(Len(origin) - 1) :
                   j * FrameLen(b) + Center(0, 4, b) < len})

AllZero(c) == \A k \in 1..Len(c) : c[k] = 0

\* C5: silence.  On an array of zeros of any length every decoder produces
\* no character and ends at the end of the array.  decode_with_pll decides
\* every bit as space: its framer runs through frame after frame of code 0,
\* eight decisions each.  The fixed-timing decoders find no start bit.
C5_Silence ==
    ~live /\ AllZero(corr) =>
        /\ text = << >>
        /\ Returned => results = << << >> >> /\ why = "end"
        /\ dec = "pll" =>
             /\ Len(codes) = i \div (8 * bpb)
             /\ \A k \in 1..Len(codes) : codes[k] = 0
             /\ (i = bpb => state = "start_verify")
        /\ dec \in {"rtty", "simple"} => codes = << >>

C5_Witness ==
    /\ Returned /\ dec = "pll" /\ AllZero(corr) /\ Len(corr) >= 16
    /\ Len(codes) = 2

\* C2: round trip through decode_with_pll.  A text with at least one shift
\* change, encoded and put on the line at a fixed number of blocks per bit,
\* is returned as it was.
C2_RoundTrip ==
    Returned /\ HasShiftChange(origin) => results = << origin >>

\* C4: "CQ" end to end.  decode_rtty returns "CQ" when the invert flag
\* matches the polarity of the signal, and something else when it does not.
C4_CQ ==
    Returned =>
        /\ origin.invert = origin.swapped => results = << CQ >>
        /\ origin.invert # origin.swapped => results # << CQ >>

\* the swapped signal decoded with invert set
C4_Witness ==
    /\ Returned /\ origin.swapped /\ origin.invert /\ origin.lead > 0
    /\ results = << CQ >> /\ codes = << 14, 23 >>

\* C8: streaming.  The texts of the two chunks, concatenated, are the text
\* of the whole stream.
C8_Streaming ==
    pc = "caller" /\ Len(results) = 3 => results[1] = results[2] \o results[3]

\* C10: the text a fixed-timing decoder returns for a prefix of a stream is
\* a prefix of the text it returns for the stream.
C10_PrefixStable ==
    pc = "caller" /\ Len(results) = 2 => IsPrefix(results[1], results[2])

-----------------------------------------------------------------------------
(* Two decode runs side by side.  The locals of a call live in its frame;   *)
(* the frame of the run that is not running is parked.                      *)

\* the frame of the running call
Frame ==
    [dec |-> dec, corr |-> corr, bpb |-> bpb, i |-> i, bit_phase |-> bit_phase,
     prev_corr |-> prev_corr, state |-> state, bit_count |-> bit_count,
     accumulator |-> accumulator, shift |-> shift, text |-> text, pc |-> pc,
     calls |-> calls, results |-> results, codes |-> codes, ncorr |-> ncorr,
     nbits |-> nbits, why |-> why]

\* the frame of a caller that has cs to call
CallerFrame(cs) ==
    [dec |-> "", corr |-> << >>, bpb |-> 1, i |-> 0, bit_phase |-> 0,
     prev_corr |-> 0, state |-> "idle", bit_count |-> 0, accumulator |-> 0,
     shift |-> "letters", text |-> << >>, pc |-> "caller", calls |-> cs,
     results |-> << >>, codes |-> << >>, ncorr |-> 0, nbits |-> 0, why |-> ""]

\* the locals of the running call are those of frame f
InFrame(f) ==
    /\ dec = f.dec /\ corr = f.corr /\ bpb = f.bpb /\ i = f.i
    /\ bit_phase = f.bit_phase /\ prev_corr = f.prev_corr
    /\ state = f.state /\ bit_count = f.bit_count
    /\ accumulator = f.accumulator /\ shift = f.shift /\ text = f.text
    /\ pc = f.pc /\ calls = f.calls /\ results = f.results
    /\ codes = f.codes /\ ncorr = f.ncorr /\ nbits = f.nbits
    /\ why = f.why

\* faulty variant: the shift is kept in a module-level variable that every
\* run reads and writes
ResumeSharedShift(f) ==
    /\ dec' = f.dec /\ corr' = f.corr /\ bpb' = f.bpb /\ i' = f.i
    /\ bit_phase' = f.bit_phase /\ prev_corr' = f.prev_corr
    /\ state' = f.state /\ bit_count' = f.bit_count
    /\ accumulator' = f.accumulator /\ shift' = shift /\ text' = f.text
    /\ pc' = f.pc /\ calls' = f.calls /\ results' = f.results
    /\ codes' = f.codes /\ ncorr' = f.ncorr /\ nbits' = f.nbits
    /\ why' = f.why

\* the run of frame f goes on: every local has the value f holds
Resume(f) ==
    /\ dec' = f.dec /\ corr' = f.corr /\ bpb' = f.bpb /\ i' = f.i
    /\ bit_phase' = f.bit_phase /\ prev_corr' = f.prev_corr
    /\ state' = f.state /\ bit_count' = f.bit_count
    /\ accumulator' = f.accumulator /\ shift' = f.shift /\ text' = f.text
    /\ pc' = f.pc /\ calls' = f.calls /\ results' = f.results
    /\ codes' = f.codes /\ ncorr' = f.ncorr /\ nbits' = f.nbits
    /\ why' = f.why

\* the running call is suspended and the parked one goes on
Switch ==
    /\ ~live /\ parked # << >>
    /\ Resume(parked[1])
    /\ parked' = << Frame >>
    /\ origin' = [origin EXCEPT !.run = 3 - @]
    /\ UNCHANGED << live, front >>

\* streams of the side-by-side runs: bit decisions as decode_with_pll takes
\* them (two spaces, five data bits, stop), frames for the other decoders
PairBits == << 0, 0, 1, 1, 0, 1, 1, 1,   0, 0, 1, 0, 0, 0, 0, 1 >>
PairCodes == << FIGS, 10 >>
\* a space of one block before the first frame
PairGlitch == << -100, 100, 100 >>

PairCalls ==
    { << ACall("pll", 1, Stretch(PairBits, 1), FALSE),
         ACall("pll", 2, Stretch(SubSeq(PairBits, 9, 16), 2), FALSE) >>,
      << ACall("pll", 2, Stretch(PairBits, 2), FALSE) >>,
      << ACall("rtty", 3, PairGlitch \o Render(PairCodes, 3, StopBlocks(3)), FALSE),
         ACall("rtty", 2, Render(Tail(PairCodes), 2, StopBlocks(2)) \o << -100 >>,
               FALSE) >>,
      << ACall("simple", 1, Render(PairCodes, 1, StopBlocks(1)), FALSE),
         ACall("simple", 3, Render(Tail(PairCodes), 3, StopBlocks(3)), TRUE) >> }

InitPair ==
    \E cs1 \in PairCalls, cs2 \in PairCalls :
        /\ InFrame(CallerFrame(cs1))
        /\ parked = << CallerFrame(cs2) >>
        /\ origin = [run |-> 1, args |-> << cs1, cs2 >>]
        /\ live = FALSE /\ FrontIdle

NextPair == Call \/ PllArr \/ PllEnd \/ FixedNext \/ Switch
SpecPair == InitPair /\ [][NextPair]_vars

-----------------------------------------------------------------------------
(* The decoders as functions of their arguments *)

\* decode_with_pll: the locals after one more sample c
PllStep(f, c, b) ==
    LET p1 == Corrected(f.prev_corr, c, f.bit_phase)
        p2 == Advanced(p1, b)
        bit == BitVal(c)
        code == Code(f.accumulator)
        g == [f EXCEPT !.prev_corr = c,
                       !.bit_phase = IF p2 >= PhaseOne THEN p2 - PhaseOne ELSE p2]
    IN
    IF p2 < PhaseOne THEN g
    ELSE CASE f.state = "idle" ->
                IF bit = 0
                THEN [g EXCEPT !.state = "start_verify", !.bit_count = 0,
                               !.accumulator = 0]
                ELSE g
           [] f.state = "start_verify" ->
                IF bit = 0
                THEN [g EXCEPT !.state = "data", !.bit_count = 0,
                               !.accumulator = 0]
                ELSE [g EXCEPT !.state = "idle"]
           [] f.state = "data" ->
                [g EXCEPT !.accumulator = OrBit(f.accumulator, bit, f.bit_count),
                          !.bit_count = IF f.bit_count + 1 >= 5 THEN 0
                                        ELSE f.bit_count + 1,
                          !.state = IF f.bit_count + 1 >= 5 THEN "stop"
                                    ELSE "data"]
           [] f.state = "stop" ->
                [g EXCEPT !.bit_count = f.bit_count + 1,
                          !.shift = NewShift(code, f.shift),
                          !.text = NewText(code, f.shift, f.text),
                          !.state = "idle"]

RECURSIVE PllFrom(_, _, _, _)
PllFrom(f, c, b, k) ==
    IF k >= Len(c) THEN f.text ELSE PllFrom(PllStep(f, At(c, k), b), c, b, k + 1)

\* decode_with_pll(correlations, blocks_per_bit): the text returned
PllText(c, b) == PllFrom(CallerFrame(<< >>), c, b, 0)

\* the while loop of decode_rtty (d = "rtty") or decode_simple, from index k
RECURSIVE FixedFrom(_, _, _, _, _, _)
FixedFrom(d, c, b, k, sh, txt) ==
    IF k >= Len(c) THEN txt
    ELSE IF At(c, k) >= -Threshold(d) THEN FixedFrom(d, c, b, k + 1, sh, txt)
    ELSE IF d = "rtty" /\ EndStart(k, b) >= Len(c) THEN txt
    ELSE IF d = "rtty" /\ ~StartHolds(c, k, b) THEN FixedFrom(d, c, b, k + 1, sh, txt)
    ELSE IF NBits(c, k, b) < 5 THEN txt
    ELSE FixedFrom(d, c, b, FrameEnd(k, b), NewShift(FrameCode(c, k, b), sh),
                   NewText(FrameCode(c, k, b), sh, txt))

\* the text the call a returns when nothing else runs
TextOf(a) ==
    IF a.dec = "pll" THEN PllText(Polarity(a.input, a.invert), a.bpb)
    ELSE FixedFrom(a.dec, Polarity(a.input, a.invert), a.bpb, 0, "letters", << >>)

\* this step is a call
Called == pc = "caller" /\ pc' = "loop" /\ parked' = parked

\* the texts rs are those of the first calls of as, each run on its own
AsAlone(rs, as) ==
    /\ Len(rs) <= Len(as)
    /\ \A k \in 1..Len(rs) : rs[k] = TextOf(as[k])

\* C11: every call starts with the framer idle, the shift at letters, an
\* empty accumulator and text and the phase at 0, whatever the calls before
\* it or beside it left behind; and with two runs interleaved step by step
\* in any order, every call returns the text it returns when run alone.
C11_Independent ==
    [][ /\ Called => /\ state' = "idle" /\ shift' = "letters"
                     /\ accumulator' = 0 /\ bit_count' = 0 /\ bit_phase' = 0
                     /\ prev_corr' = 0 /\ text' = << >> /\ i' = 0
        /\ AsAlone(results', origin'.args[origin'.run])
        /\ AsAlone(parked'[1].results, origin'.args[3 - origin'.run]) ]_vars

\* both runs are over; the first made two calls of decode_with_pll, its first
\* ending in the figures shift, and was suspended while the other decoded
C11_Witness ==
    /\ pc = "caller" /\ calls = << >> /\ parked[1].pc = "caller"
    /\ parked[1].calls = << >>
    /\ origin.run = 1 /\ Len(results) = 2 /\ dec = "pll"
    /\ results = << << "3" >>, << "E" >> >>
    /\ parked[1].dec = "rtty" /\ parked[1].results[1] = << "4" >>

-----------------------------------------------------------------------------
(* The tone correlators: compute_correlation_stream (rtty_bitsync.py) and   *)
(* sliding_goertzel (rtty_measure_baud.py).                                 *)
(*                                                                          *)
(* Numbers.  Audio samples are integers, in units whose square is           *)
(* 1.25e-11, so that powers are integers and the silence test               *)
(* "total > 1e-10" reads "total > PowerEps".  The frequencies are those     *)
(* whose Goertzel coefficient 2*cos(2*pi*k/N) is an integer (k/N a multiple *)
(* of 1/12 other than an odd one), where the recursion is exact.  A         *)
(* correlation value is the fraction << numerator, denominator >>.          *)

\* the variables of the decoders that the front end leaves alone
decoder == << live, corr, bpb, bit_phase, prev_corr, state, bit_count,
              accumulator, shift, text, calls, codes, ncorr, why, nbits,
              parked >>

\* sample rate of the audio, Hz
sr == 12000
\* 1e-10
PowerEps == 8

\* Python's round(a / b), halves to the even neighbour; a >= 0, b > 0
RoundHalfEven(a, b) ==
    LET q == a \div b
        r == a % b
    IN IF 2 * r < b THEN q
       ELSE IF 2 * r > b THEN q + 1
       ELSE IF q % 2 = 0 THEN q ELSE q + 1

\* k = round(N * freq / sr)
Bin(N, freq) == RoundHalfEven(N * freq, sr)

\* twelfths of a turn of w = 2*pi*k/N, when k/N is a multiple of 1/12
Twelfths(k, N) == ((12 * k) \div N) % 12

\* 2*cos(2*pi*k/N) is an integer
CoeffKnown(k, N) ==
    N > 0 /\ (12 * k) % N = 0 /\ Twelfths(k, N) \in {0, 2, 3, 4, 6, 8, 9, 10}

\* coeff = 2 * np.cos(w)
Coeff(k, N) ==
    CASE Twelfths(k, N) = 0 -> 2
      [] Twelfths(k, N) \in {2, 10} -> 1
      [] Twelfths(k, N) \in {3, 9} -> 0
      [] Twelfths(k, N) \in {4, 8} -> -1
      [] Twelfths(k, N) = 6 -> -2

\* the second-order recursion over chunk[n..], then the power
RECURSIVE GoertzelFrom(_, _, _, _, _)
GoertzelFrom(chunk, coeff, n, s1, s2) ==
    IF n > Len(chunk) THEN s1 * s1 + s2 * s2 - coeff * s1 * s2
    ELSE GoertzelFrom(chunk, coeff, n + 1, chunk[n] + coeff * s1 - s2, s1)

\* Goertzel power of chunk at freq, the bin being that of a block of N samples
Goertzel(chunk, N, freq) == GoertzelFrom(chunk, Coeff(Bin(N, freq), N), 1, 0, 0)

\* samples[lo:hi]
Slice(s, lo, hi) == SubSeq(s, Min(lo, Len(s)) + 1, Min(hi, Len(s)))

\* faulty variant: the silence test is left out
CorrelationNoEps(mp, sp) ==
    IF mp + sp > 0 THEN << mp - sp, mp + sp >> ELSE << 0, 1 >>

\* (mp - sp) / total if total > 1e-10, else 0
Correlation(mp, sp) ==
    IF mp + sp > PowerEps THEN << mp - sp, mp + sp >> ELSE << 0, 1 >>

\* total if total > 1e-10, else 0
Magnitude(mp, sp) == IF mp + sp > PowerEps THEN mp + sp ELSE 0

FrontCall(d) == dec = d /\ pc = "entry"
FrontLoop(d) == dec = d /\ pc = "loop"

\* compute_correlation_stream: n_blocks = len(samples) // block_size
CsAlloc ==
    /\ FrontCall("stream")
    /\ n_blocks' = Len(samples) \div block_size
    /\ i' = 0 /\ pc' = "loop"
    /\ UNCHANGED << dec, results, origin, decoder, samples, block_size,
                    hop_size, powers, magnitudes, correlations, mark_freq,
                    space_freq, raised, estim >>

\* one block: both powers, the correlation value and the magnitude
CsBlock ==
    /\ FrontLoop("stream") /\ i < n_blocks
    /\ LET chunk == Slice(samples, i * block_size, (i + 1) * block_size)
           mp == Goertzel(chunk, Len(chunk), mark_freq)
           sp == Goertzel(chunk, Len(chunk), space_freq)
       IN /\ correlations' = Append(correlations, Correlation(mp, sp))
          /\ magnitudes' = Append(magnitudes, Magnitude(mp, sp))
          /\ powers' = Append(powers, << mp, sp >>)
          /\ origin' = Append(origin, << i * block_size, Len(chunk) >>)
    /\ i' = i + 1
    /\ UNCHANGED << dec, pc, results, decoder, samples, block_size, hop_size,
                    n_blocks, mark_freq, space_freq, raised, estim >>

\* return correlations, magnitudes
CsReturn ==
    /\ FrontLoop("stream") /\ i >= n_blocks
    /\ pc' = "caller"
    /\ results' = << correlations, magnitudes >>
    /\ UNCHANGED << dec, i, origin, decoder, front >>

\* sliding_goertzel: n_blocks = (len(samples) - block_size) // hop_size + 1;
\* np.zeros(n_blocks) raises ValueError on a negative dimension
SgAlloc ==
    /\ FrontCall("sliding")
    /\ n_blocks' = ((Len(samples) - block_size) \div hop_size) + 1
    /\ i' = 0
    /\ IF n_blocks' < 0
       THEN pc' = "caller" /\ raised' = "ValueError"
       ELSE pc' = "loop" /\ raised' = raised
    /\ UNCHANGED << dec, results, origin, decoder, samples, block_size,
                    hop_size, powers, magnitudes, correlations, mark_freq,
                    space_freq, estim >>

\* one block: chunk = samples[start:start+N], its power
SgBlock ==
    /\ FrontLoop("sliding") /\ i < n_blocks
    /\ LET chunk == Slice(samples, i * hop_size, i * hop_size + block_size)
       IN /\ powers' = Append(powers, Goertzel(chunk, block_size, mark_freq))
          /\ origin' = Append(origin, << i * hop_size, Len(chunk) >>)
    /\ i' = i + 1
    /\ UNCHANGED << dec, pc, results, decoder, samples, block_size, hop_size,
                    n_blocks, magnitudes, correlations, mark_freq, space_freq,
                    raised, estim >>

\* return powers
SgReturn ==
    /\ FrontLoop("sliding") /\ i >= n_blocks
    /\ pc' = "caller"
    /\ results' = << powers >>
    /\ UNCHANGED << dec, i, origin, decoder, front >>

-----------------------------------------------------------------------------
(* Audio of the correlator runs *)

\* buffers hold at most this many samples
MaxAudio == 13
\* buffers of arbitrary samples hold at most this many
MaxRaw == 4
\* block sizes go up to this
MaxBlock == 12
\* hop sizes go up to this
MaxHop == 3
SampleVals == {-1, 0, 1, 3}
\* tone frequencies, Hz: sr/6, sr/4, sr/2
ToneFreqs == {2000, 3000, 6000}

\* one period of a sinusoid of frequency freq, scaled to integers, starting
\* at phase 0 (ph = 0) or a quarter period on (ph = 1)
Period(freq, ph) ==
    CASE freq = 2000 -> IF ph = 0 THEN << 0, 1, 1, 0, -1, -1 >>
                        ELSE << 2, 1, -1, -2, -1, 1 >>
      [] freq = 3000 -> IF ph = 0 THEN << 0, 1, 0, -1 >> ELSE << 1, 0, -1, 0 >>
      [] freq = 6000 -> << 1, -1 >>

\* len samples of a pure sinusoid
Tone(freq, ph, len) ==
    [n \in 1..len |-> Period(freq, ph)[((n - 1) % Len(Period(freq, ph))) + 1]]

\* amplitudes of the tones
ToneAmps == {1, 3}

\* the sinusoid at amplitude amp
Scaled(amp, s) == [n \in 1..Len(s) |-> amp * s[n]]

Audio ==
    SeqsUpTo(SampleVals, MaxRaw)
      \cup {Scaled(amp, Tone(f, ph, len)) :
               amp \in ToneAmps, f \in ToneFreqs, ph \in {0, 1}, len \in 0..MaxAudio}

\* block sizes at which both coefficients are integers
BlockSizes(fm, fs) ==
    {N \in 1..MaxBlock : CoeffKnown(Bin(N, fm), N) /\ CoeffKnown(Bin(N, fs), N)}

InitFront ==
    /\ dec \in {"stream", "sliding"} /\ pc = "entry"
    /\ mark_freq \in ToneFreqs /\ space_freq \in ToneFreqs
    /\ mark_freq # space_freq
    /\ samples \in Audio
    /\ block_size \in BlockSizes(mark_freq, space_freq)
    /\ hop_size \in 1..MaxHop
    /\ dec = "stream" => hop_size = 1
    /\ n_blocks = 0 /\ powers = << >> /\ magnitudes = << >>
    /\ correlations = << >> /\ raised = ""
    /\ crossings = << >> /\ intervals = << >> /\ best_score = Inf
    /\ best_baud = NoBaud /\ best_pairs = << >>
    /\ spectrogram = { }
    /\ live = FALSE /\ corr = << >> /\ bpb = 1 /\ i = 0 /\ bit_phase = 0
    /\ prev_corr = 0 /\ state = "idle" /\ bit_count = 0 /\ accumulator = 0
    /\ shift = "letters" /\ text = << >> /\ calls = << >> /\ results = << >>
    /\ codes = << >> /\ ncorr = 0 /\ nbits = 0 /\ why = "" /\ parked = << >>
    /\ origin = << >>

NextFront == CsAlloc \/ CsBlock \/ CsReturn \/ SgAlloc \/ SgBlock \/ SgReturn
SpecFront == InitFront /\ [][NextFront]_vars

\* the call has returned (not raised)
FrontReturned == pc = "caller" /\ raised = ""

\* C12: no error conditions.  Neither correlator raises; the stream
\* correlator returns floor(L/N) values and the sliding one
\* floor((L-N)/hop)+1, none when L < N; every block read lies in the buffer,
\* is N samples long and starts where the loop index puts it.
C12_NoErrors ==
    /\ raised = ""
    /\ FrontReturned /\ dec = "stream" =>
         /\ Len(results[1]) = Len(samples) \div block_size
         /\ Len(results[2]) = Len(samples) \div block_size
    /\ FrontReturned /\ dec = "sliding" =>
         Len(results[1]) = IF Len(samples) < block_size THEN 0
                           ELSE ((Len(samples) - block_size) \div hop_size) + 1
    /\ dec \in {"stream", "sliding"} =>
         \A k \in 1..Len(origin) :
            /\ origin[k][1] = (k - 1) * (IF dec = "stream" THEN block_size ELSE hop_size)
            /\ origin[k][2] = block_size
            /\ origin[k][1] + origin[k][2] <= Len(samples)

\* the value v = << n, d >> of a block of mark power m and space power s is
\* (m - s)/(m + s) above the silence level and 0 at or below it, and the
\* magnitude g is m + s or 0
ValueOf(v, g, m, s) ==
    /\ v[2] > 0
    /\ m + s > PowerEps => v[1] * (m + s) = (m - s) * v[2] /\ g = m + s
    /\ m + s <= PowerEps => v[1] = 0 /\ g = 0
    /\ -v[2] <= v[1] /\ v[1] <= v[2]
    /\ g >= 0

\* the sign of v is that of m - s, and v is +1 or -1 when one power is 0
SignOf(v, m, s) ==
    /\ v[1] > 0 <=> m > s
    /\ v[1] < 0 <=> m < s
    /\ s = 0 /\ 0 < m => v[1] = v[2]
    /\ m = 0 /\ 0 < s => v[1] = -v[2]

\* C13 as claimed: for all non-negative powers the value is (m - s)/(m + s)
\* or 0 in silence, lies in [-1, 1], has the sign of m - s, is +1 when
\* s = 0 < m and -1 when m = 0 < s, and the magnitude is not negative.
C13_Range ==
    \A k \in 1..Len(correlations) :
        /\ powers[k][1] >= 0 /\ powers[k][2] >= 0
        /\ ValueOf(correlations[k], magnitudes[k], powers[k][1], powers[k][2])
        /\ SignOf(correlations[k], powers[k][1], powers[k][2])

\* C13 amended: the value is (m - s)/(m + s) when m + s > 1e-10 and 0
\* otherwise, lies in [-1, 1], and the magnitude is m + s or 0 and never
\* negative; when m + s > 1e-10 the value is positive iff m > s, negative
\* iff m < s, +1 when s = 0 and -1 when m = 0.
C13_RangeAmended ==
    \A k \in 1..Len(correlations) :
        /\ powers[k][1] >= 0 /\ powers[k][2] >= 0
        /\ ValueOf(correlations[k], magnitudes[k], powers[k][1], powers[k][2])
        /\ powers[k][1] + powers[k][2] > PowerEps =>
             SignOf(correlations[k], powers[k][1], powers[k][2])

\* a stream with a block of mark power alone below the silence level, whose
\* value is 0, and a block of mark power alone above it, whose value is +1
C13_Witness ==
    /\ dec = "stream" /\ FrontReturned
    /\ \E k \in 1..Len(correlations) :
         /\ powers[k][2] = 0 /\ powers[k][1] \in 1..PowerEps
         /\ correlations[k] = << 0, 1 >> /\ magnitudes[k] = 0
    /\ \E k \in 1..Len(correlations) :
         /\ powers[k][2] = 0 /\ powers[k][1] > PowerEps
         /\ correlations[k] = << powers[k][1], powers[k][1] >>

-----------------------------------------------------------------------------
(* decode_rtty from the audio on: its correlation stage, then its state     *)
(* machine, with the tones either way round and invert set or not.          *)

\* samples per block of these runs; its bins 1 and 2 are the two tones
InvBlock == 4
InvLow == 3000
InvHigh == 6000

\* blocks of arbitrary content per buffer, at most
MaxKinds == 3

\* a block of InvBlock samples: the low tone at amplitude p[1] plus the high
\* tone at amplitude p[2]
ToneBlock(p) ==
    [n \in 1..InvBlock |-> p[1] * Tone(InvLow, 0, InvBlock)[n]
                             + p[2] * Tone(InvHigh, 0, InvBlock)[n]]

\* amplitude pairs: the low tone alone, the high tone alone, mixtures that
\* read 0.6, -0.6 and 0, no signal, and a low tone under the silence level
AmpPairs == { << 4, 0 >>, << 0, 2 >>, << 4, 1 >>, << 2, 2 >>, << 2, 1 >>,
              << 0, 0 >>, << 1, 0 >> }

RECURSIVE AudioOf(_)
AudioOf(ps) == IF ps = << >> THEN << >> ELSE ToneBlock(Head(ps)) \o AudioOf(Tail(ps))

\* a correlation value in hundredths
Hundredths(v) == (100 * v[1]) \div v[2]

\* the value of block k (from 0) of the buffer au, mark at fm and space at fs,
\* before "if invert"
BlockValue(au, k, fm, fs) ==
    LET chunk == Slice(au, k * InvBlock, (k + 1) * InvBlock)
    IN Correlation(Goertzel(chunk, Len(chunk), fm), Goertzel(chunk, Len(chunk), fs))

\* decode_rtty, lines 72-83: the correlations of the buffer, block by block
CorrelationsOf(au, fm, fs) ==
    [k \in 1..(Len(au) \div InvBlock) |-> Hundredths(BlockValue(au, k - 1, fm, fs))]

\* every value of the buffer is a whole number of hundredths
WholeHundredths(au, fm, fs) ==
    \A k \in 0..((Len(au) \div InvBlock) - 1) :
        (100 * BlockValue(au, k, fm, fs)[1]) % BlockValue(au, k, fm, fs)[2] = 0

\* the amplitude pairs of a framed stream whose mark is the high tone
FramedPairs(cs, b) ==
    LET line == Render(cs, b, StopBlocks(b))
    IN [k \in 1..Len(line) |-> IF line[k] > 0 THEN << 0, 2 >> ELSE << 4, 0 >>]

\* one block of space, two of mark: a start bit that does not hold
InvGlitch == << << 4, 0 >>, << 0, 2 >>, << 0, 2 >> >>

InvBuffers(b) ==
    SeqsUpTo(AmpPairs, MaxKinds)
      \cup {FramedPairs(cs, b) : cs \in SeqsUpTo(FrameCodes, PairFrames)}
      \cup {InvGlitch \o FramedPairs(cs, b) : cs \in SeqsUpTo(FrameCodes, 1)}

\* the same buffer decoded four times: mark low and inverted, mark high,
\* mark low, mark high and inverted
InitInvert ==
    \E b \in FixBpbSet :
      \E ps \in InvBuffers(b) :
        LET au == AudioOf(ps) IN
        /\ WholeHundredths(au, InvLow, InvHigh)
        /\ Caller(<< ACall("rtty", b, CorrelationsOf(au, InvLow, InvHigh), TRUE),
                     ACall("rtty", b, CorrelationsOf(au, InvHigh, InvLow), FALSE),
                     ACall("rtty", b, CorrelationsOf(au, InvLow, InvHigh), FALSE),
                     ACall("rtty", b, CorrelationsOf(au, InvHigh, InvLow), TRUE) >>,
                  ps)

NextInvert == Call \/ FixedNext
SpecInvert == InitInvert /\ [][NextInvert]_vars

\* the step is call number n of the caller
CallNo(n) == pc = "caller" /\ pc' = "loop" /\ Len(results) = n - 1

Negated(c) == [k \in 1..Len(c) |-> -c[k]]

\* C14: inversion is negation.  With mark a, space b and invert set the
\* correlation stream is that of mark b, space a without invert, value for
\* value, and so is the text; without invert every value is the negative;
\* and swapping the tones and inverting together changes nothing.
C14_Inversion ==
    [][ /\ CallNo(2) => corr' = corr
        /\ CallNo(3) => corr' = Negated(corr) /\ corr = Negated(corr')
        /\ CallNo(4) => corr' = corr
        /\ Len(results') >= 2 => results'[1] = results'[2]
        /\ Len(results') = 4 => results'[3] = results'[4] ]_vars

\* a frame of code 1 decoded all four ways: "E" with the mark on the high
\* tone, nothing the other way round
C14_Witness ==
    /\ pc = "caller" /\ Len(results) = 4 /\ origin = FramedPairs(<< 1 >>, 2)
    /\ results[1] = << "E" >> /\ results[2] = << "E" >>
    /\ results[3] # << "E" >> /\ results[4] = results[3]

-----------------------------------------------------------------------------
(* Baud rate estimation: analyze_baud_rate (analyze_rtty.py), from its      *)
(* correlation on, and the estimation part of main (rtty_measure_baud.py).  *)
(*                                                                          *)
(* Numbers.  Times are integers in units of 1/TimeUnit second, TimeUnit     *)
(* being a multiple of the hop rate and of the four candidate rates, so     *)
(* that one hop, the 5 ms limit and the bit periods are whole numbers.  A   *)
(* score sum(r)/n, r the distance to the nearest multiple as a fraction of  *)
(* the period, is held as << sum of the distances, period >>, n being the   *)
(* same for every candidate.  Baud rates are in hundredths.                 *)

TimeUnit == 363600

\* window_samples = int(sr * window_ms / 1000); hop = window_samples // 2
WindowSamples == (sr * 5) \div 1000
Hop == WindowSamples \div 2
\* hop / sr, in time units
HopTime == (Hop * TimeUnit) \div sr
\* 0.005 s
MinInterval == (5 * TimeUnit) \div 1000

\* baud_rates, in the order of the dict
BaudRates == << 4545, 5000, 7500, 10000 >>
\* 1 / baud, in time units
BitPeriod(baud) == (100 * TimeUnit) \div baud

\* the elements of the set of integers S in increasing order
RECURSIVE Sorted(_)
Sorted(S) ==
    IF S = {} THEN << >>
    ELSE LET m == CHOOSE x \in S : \A y \in S : x <= y
         IN << m >> \o Sorted(S \ {m})

\* np.diff
Diff(q) == [k \in 1..(Len(q) - 1) |-> q[k + 1] - q[k]]

RECURSIVE SumSeq(_)
SumSeq(q) == IF q = << >> THEN 0 ELSE Head(q) + SumSeq(Tail(q))

\* indices i >= 1 with correlation[i-1] * correlation[i] < 0
Crossings(c) == Sorted({k \in 1..(Len(c) - 1) : c[k] * c[k + 1] < 0})

\* np.diff(crossings) * (hop / sr)
Intervals(cr) == [k \in 1..(Len(cr) - 1) |-> (cr[k + 1] - cr[k]) * HopTime]

LongEnough(x) == x > MinInterval

\* intervals[intervals > 0.005]
RECURSIVE Long(_)
Long(q) ==
    IF q = << >> THEN << >>
    ELSE (IF LongEnough(Head(q)) THEN << Head(q) >> ELSE << >>) \o Long(Tail(q))

\* distance from x to the nearest multiple of period
Remainder(x, period) == Min(x % period, period - (x % period))

\* np.mean(remainders), as << sum of distances, period >>
Score(ints, period) ==
    << SumSeq([k \in 1..Len(ints) |-> Remainder(ints[k], period)]), period >>

\* faulty variant: the first candidate is kept whatever the scores
ScoreLessNever(a, b) == b = Inf

\* score < best_score
ScoreLess(a, b) == a[1] * b[2] < b[1] * a[2]

\* faulty variant: one transition is taken for enough
TooFewNone(cr) == Len(cr) < 1

\* len(crossings) < 2
TooFew(cr) == Len(cr) < 2

\* analyze_baud_rate: find the crossings; fewer than two: return None
AbCross ==
    /\ FrontCall("analyze")
    /\ crossings' = Crossings(correlations)
    /\ IF TooFew(crossings')
       THEN pc' = "caller" /\ results' = << best_baud >>
       ELSE pc' = "filter" /\ results' = results
    /\ UNCHANGED << dec, i, origin, decoder, samples, block_size, hop_size,
                    n_blocks, powers, magnitudes, correlations, mark_freq,
                    space_freq, raised, intervals, best_score, best_baud,
                    best_pairs,
                    spectrogram >>

\* the intervals over 5 ms; none: return None
AbFilter ==
    /\ dec = "analyze" /\ pc = "filter"
    /\ intervals' = Long(Intervals(crossings))
    /\ IF intervals' = << >>
       THEN pc' = "caller" /\ results' = << best_baud >>
       ELSE pc' = "score" /\ results' = results
    /\ i' = 0
    /\ UNCHANGED << dec, origin, decoder, samples, block_size, hop_size,
                    n_blocks, powers, magnitudes, correlations, mark_freq,
                    space_freq, raised, crossings, best_score, best_baud,
                    best_pairs,
                    spectrogram >>

\* one candidate of "for baud, period in baud_rates.items()"
AbScore ==
    /\ dec = "analyze" /\ pc = "score" /\ i < Len(BaudRates)
    /\ LET baud == BaudRates[i + 1]
           score == Score(intervals, BitPeriod(baud))
       IN IF ScoreLess(score, best_score)
          THEN best_score' = score /\ best_baud' = baud
          ELSE UNCHANGED << best_score, best_baud >>
    /\ i' = i + 1
    /\ UNCHANGED << dec, pc, results, origin, decoder, samples, block_size,
                    hop_size, n_blocks, powers, magnitudes, correlations,
                    mark_freq, space_freq, raised, crossings, intervals,
                    best_pairs,
                    spectrogram >>

\* return best_baud, correlation
AbReturn ==
    /\ dec = "analyze" /\ pc = "score" /\ i >= Len(BaudRates)
    /\ pc' = "caller"
    /\ results' = << best_baud >>
    /\ UNCHANGED << dec, i, origin, decoder, front >>

\* rtty_measure_baud.main: hop_size and the rates it reports on
MeasureHop == 24
MeasureRates == << 4500, 4545, 4600, 4700, 4800, 4900, 5000 >>

\* np.where(np.diff(binary) != 0), binary = correlation > 0
Transitions(c) == Sorted({k \in 1..(Len(c) - 1) : (c[k] > 0) # (c[k + 1] > 0)})

\* bit_counts = np.round(intervals_ms / bit_ms), the interval x in samples
BitCount(x, baud) == RoundHalfEven(x * baud, sr * 100)

\* |intervals_ms - expected_ms|, in units of 1000 / (sr * baud) ms
BitError(x, baud) ==
    IF x * baud >= BitCount(x, baud) * sr * 100
    THEN x * baud - BitCount(x, baud) * sr * 100
    ELSE BitCount(x, baud) * sr * 100 - x * baud

\* valid = (bit_counts >= 1) & (bit_counts <= 10)
Valid(x, baud) == BitCount(x, baud) >= 1 /\ BitCount(x, baud) <= 10

\* the line printed for one rate: the errors of the valid intervals (their
\* RMS is printed, 999 when there is none) and how many they are
ReportLine(ints, baud) ==
    LET ok == {k \in 1..Len(ints) : Valid(ints[k], baud)}
    IN [note |-> "", baud |-> baud,
        errors |-> [k \in 1..Cardinality(ok) |-> BitError(ints[Sorted(ok)[k]], baud)],
        valid |-> Cardinality(ok)]

TooFewLine == [note |-> "Too few transitions!", baud |-> 0, errors |-> << >>,
               valid |-> 0]

\* main: the transitions; fewer than two: "Too few transitions!", return
MbCross ==
    /\ FrontCall("measure")
    /\ crossings' = Transitions(correlations)
    /\ IF TooFew(crossings')
       THEN /\ pc' = "caller" /\ results' = << TooFewLine >>
            /\ intervals' = intervals
       ELSE /\ pc' = "report" /\ results' = results
            /\ intervals' = [k \in 1..(Len(crossings') - 1) |->
                               (crossings'[k + 1] - crossings'[k]) * MeasureHop]
    /\ i' = 0
    /\ UNCHANGED << dec, origin, decoder, samples, block_size, hop_size,
                    n_blocks, powers, magnitudes, correlations, mark_freq,
                    space_freq, raised, best_score, best_baud, best_pairs,
                    spectrogram >>

\* one rate of "for baud in [45.0, 45.45, ...]": its line is printed
MbReport ==
    /\ dec = "measure" /\ pc = "report" /\ i < Len(MeasureRates)
    /\ results' = Append(results, ReportLine(intervals, MeasureRates[i + 1]))
    /\ i' = i + 1
    /\ UNCHANGED << dec, pc, origin, decoder, front >>

\* the estimation is over (main goes on to decode at rates it lists itself)
MbDone ==
    /\ dec = "measure" /\ pc = "report" /\ i >= Len(MeasureRates)
    /\ pc' = "caller"
    /\ UNCHANGED << dec, i, results, origin, decoder, front >>

\* correlation streams of the estimator runs: arbitrary signs, or a stream
\* that starts on mark and changes sides after each of the given run lengths
MaxSigns == 5
MaxRun == 12
MaxRuns == 3
SignVals == {-100, 0, 100}

RECURSIVE Runs(_, _)
Runs(rs, v) == IF rs = << >> THEN << v >> ELSE Rep(v, Head(rs)) \o Runs(Tail(rs), -v)

BaudStreams ==
    SeqsUpTo(SignVals, MaxSigns)
      \cup {<< 100 >> \o Runs(rs, -100) : rs \in SeqsUpTo(1..MaxRun, MaxRuns)}

InitBaud ==
    /\ dec \in {"analyze", "measure"} /\ pc = "entry"
    /\ correlations \in BaudStreams
    /\ samples = << >> /\ block_size = 1 /\ hop_size = 1 /\ n_blocks = 0
    /\ powers = << >> /\ magnitudes = << >>
    /\ mark_freq = 0 /\ space_freq = 0 /\ raised = ""
    /\ crossings = << >> /\ intervals = << >> /\ best_score = Inf
    /\ best_baud = NoBaud /\ best_pairs = << >>
    /\ spectrogram = { }
    /\ live = FALSE /\ corr = << >> /\ bpb = 1 /\ i = 0 /\ bit_phase = 0
    /\ prev_corr = 0 /\ state = "idle" /\ bit_count = 0 /\ accumulator = 0
    /\ shift = "letters" /\ text = << >> /\ calls = << >> /\ results = << >>
    /\ codes = << >> /\ ncorr = 0 /\ nbits = 0 /\ why = "" /\ parked = << >>
    /\ origin = << >>

NextBaud == AbCross \/ AbFilter \/ AbScore \/ AbReturn \/ MbCross \/ MbReport \/ MbDone
SpecBaud == InitBaud /\ [][NextBaud]_vars

\* the last sample before position k (from 1) that is not 0, 0 if none
RECURSIVE Side(_, _)
Side(c, k) == IF k = 0 THEN 0 ELSE IF c[k] # 0 THEN c[k] ELSE Side(c, k - 1)

\* mark/space transitions of the stream: the positions where the sample is
\* on the other side than the last sample that was on a side
SideChanges(c) == {k \in 2..Len(c) : c[k] * Side(c, k - 1) < 0}

\* C15: with fewer than two mark/space transitions in the stream, or with no
\* interval between the transitions found that is longer than 5 ms,
\* analyze_baud_rate returns None, never a rate; when main finds fewer than
\* two transitions (changes between mark and not mark) it prints "Too few
\* transitions!" and no line for any rate.
C15_Undetermined ==
    /\ (pc = "caller" /\ dec = "analyze"
          /\ (Cardinality(SideChanges(correlations)) < 2
                \/ \A k \in 1..(Len(crossings) - 1) :
                      ~LongEnough((crossings[k + 1] - crossings[k]) * HopTime)))
         => results = << NoBaud >>
    /\ (pc = "caller" /\ dec = "measure"
          /\ (Len(crossings) < 2
                \/ (/\ Cardinality(SideChanges(correlations)) < 2
                    /\ \A k \in 1..Len(correlations) : correlations[k] # 0)))
         => results = << TooFewLine >>
    /\ (dec = "analyze" /\ Cardinality(SideChanges(correlations)) < 2)
         => best_baud = NoBaud /\ \A k \in 1..Len(results) : results[k] = NoBaud
    /\ (dec = "measure" /\ pc # "entry" /\ Len(crossings) < 2)
         => \A k \in 1..Len(results) : results[k].baud = 0

\* a stream with one transition, and one with three transitions 2.5 ms
\* apart: both returned None
C15_Witness ==
    /\ pc = "caller" /\ dec = "analyze" /\ results = << NoBaud >>
    /\ \/ Cardinality(SideChanges(correlations)) = 1
       \/ Len(crossings) = 3 /\ intervals = << >>

\* round(x / period), halves to even
Multiple(x, period) == RoundHalfEven(x, period)

\* the intervals of 1 to 10 bit periods
InRange(ints, period) ==
    {k \in 1..Len(ints) : Multiple(ints[k], period) >= 1 /\ Multiple(ints[k], period) <= 10}

\* the squared error of interval x against the nearest multiple of period
SqError(x, period) ==
    (x - Multiple(x, period) * period) * (x - Multiple(x, period) * period)

\* mean squared quantization error of the intervals of 1 to 10 bit periods,
\* as << sum, count >>
MeanSq(ints, period) ==
    << SumSeq([k \in 1..Len(ints) |->
                 IF k \in InRange(ints, period) THEN SqError(ints[k], period) ELSE 0]),
       Cardinality(InRange(ints, period)) >>

\* the RMS error a is not larger than b; without an interval in range the
\* error counts as larger than any
RmsLeq(a, b) == b[2] = 0 \/ (a[2] > 0 /\ a[1] * b[2] <= b[1] * a[2])

\* C17: when a rate is selected it is one of 45.45, 50, 75 and 100, and no
\* other candidate has a smaller RMS quantization error of the intervals
\* against multiples of its bit period, taken over the intervals of 1 to 10
\* bit periods.
C17_MinRms ==
    (pc = "caller" /\ dec = "analyze" /\ intervals # << >>) =>
        /\ \E k \in 1..Len(BaudRates) : results = << BaudRates[k] >>
        /\ \A k \in 1..Len(BaudRates) :
              RmsLeq(MeanSq(intervals, BitPeriod(results[1])),
                     MeanSq(intervals, BitPeriod(BaudRates[k])))

-----------------------------------------------------------------------------
(* Tone-pair search: main (spectrogram_rtty.py) from its FSK tone detection *)
(* on. The spectrogram is kept as the statistics its bin pairs yield at     *)
(* lines 130-148: the anti-correlation in hundredths, the number of active  *)
(* frames and the combined energy.                                          *)

Shifts == << 170, 200, 425, 450, 850 >>

\* np.arange(300, 3200, 5)
TestFreqs == [k \in 1..580 |-> 300 + 5 * (k - 1)]

\* np.arange(500, 3200, 20)
ArbFreqs == [k \in 1..135 |-> 500 + 20 * (k - 1)]

\* spacing of the spectrogram's bins: 1000 / window_ms Hz
BinWidth == 50
freq_min == 200
freq_max == 3500

\* masked_freqs[np.argmin(np.abs(masked_freqs - f))]: the first nearest bin
BinOf(f) ==
    LET lo == (f \div BinWidth) * BinWidth
        b  == IF f - lo <= lo + BinWidth - f THEN lo ELSE lo + BinWidth
    IN Max(freq_min, Min(freq_max, b))

\* two bins without a keyed signal: uncorrelated
Quiet == [corr |-> 0, active |-> 10, energy |-> 1]

\* corr, np.sum(active_mask) and combined_energy of the bins mb and sb
Stat(mb, sb) ==
    IF mb = sb THEN [corr |-> 100, active |-> 10, energy |-> 1]
    ELSE IF \E r \in spectrogram : r.mark = mb /\ r.space = sb
         THEN LET r == CHOOSE r \in spectrogram : r.mark = mb /\ r.space = sb
              IN [corr |-> r.corr, active |-> r.active, energy |-> r.energy]
         ELSE Quiet

MinActive == 10
StdThreshold == -30
ArbThreshold == -50
MaxReport == 15

\* an entry of best_pairs
Pair(mark_f, space_f, sh) ==
    [mark |-> mark_f, space |-> space_f, shift |-> sh,
     corr |-> Stat(BinOf(mark_f), BinOf(space_f)).corr,
     energy |-> Stat(BinOf(mark_f), BinOf(space_f)).energy]

\* the pair (mark_f, mark_f - sh) is appended by the standard search
StdPass(mark_f, sh) ==
    /\ mark_f - sh >= 200
    /\ Stat(BinOf(mark_f), BinOf(mark_f - sh)).active >= MinActive
    /\ Stat(BinOf(mark_f), BinOf(mark_f - sh)).corr < StdThreshold
    /\ Stat(BinOf(mark_f), BinOf(mark_f - sh)).energy > 0

\* position n of the standard search's two loops
StdMark(n) == TestFreqs[((n - 1) \div Len(Shifts)) + 1]
StdShift(n) == Shifts[((n - 1) % Len(Shifts)) + 1]

\* best_pairs after the standard search, in the order of appending
StandardPairs ==
    LET hits == Sorted({n \in 1..(Len(TestFreqs) * Len(Shifts)) :
                          StdPass(StdMark(n), StdShift(n))})
    IN [k \in 1..Len(hits) |->
          Pair(StdMark(hits[k]), StdMark(hits[k]) - StdShift(hits[k]),
               StdShift(hits[k]))]

\* np.arange(max(200, mark_f - 1000), mark_f - 50, 20) has at most this many
ArbSpaces == 48

\* position n of the arbitrary search's two loops
ArbMark(n) == ArbFreqs[((n - 1) \div ArbSpaces) + 1]
ArbSpace(n) == Max(200, ArbMark(n) - 1000) + 20 * ((n - 1) % ArbSpaces)

\* the pair is appended by the arbitrary search
ArbPass(mark_f, space_f) ==
    /\ space_f < mark_f - 50
    /\ Stat(BinOf(mark_f), BinOf(space_f)).active >= MinActive
    /\ Stat(BinOf(mark_f), BinOf(space_f)).corr < ArbThreshold

\* best_pairs after the arbitrary search, in the order of appending
ArbitraryPairs ==
    LET hits == Sorted({n \in 1..(Len(ArbFreqs) * ArbSpaces) :
                          ArbPass(ArbMark(n), ArbSpace(n))})
    IN [k \in 1..Len(hits) |->
          Pair(ArbMark(hits[k]), ArbSpace(hits[k]),
               ArbMark(hits[k]) - ArbSpace(hits[k]))]

\* q without its k-th element
Remove(q, k) == SubSeq(q, 1, k - 1) \o SubSeq(q, k + 1, Len(q))

\* faulty variant: the pairs are left in the order of appending
ByCorrUnsorted(q) == q

\* best_pairs.sort(key=lambda x: x[3]): stable, most negative first
RECURSIVE ByCorr(_)
ByCorr(q) ==
    IF q = << >> THEN << >>
    ELSE LET k == CHOOSE k \in 1..Len(q) :
                     /\ \A j \in 1..Len(q) : q[k].corr <= q[j].corr
                     /\ \A j \in 1..(k - 1) : q[j].corr > q[k].corr
         IN << q[k] >> \o ByCorr(Remove(q, k))

\* the deduplication keys of the two reports
StdKey(p) == << RoundHalfEven(p.mark, 20) * 20, p.shift >>
ArbKey(p) == << RoundHalfEven(p.mark, 30) * 30, RoundHalfEven(p.shift, 30) * 30 >>

\* printed lines: a message, or a pair
Message(m) == [note |-> m, mark |-> 0, space |-> 0, shift |-> 0, corr |-> 0]
PairLine(p) ==
    [note |-> "", mark |-> p.mark, space |-> p.space, shift |-> p.shift,
     corr |-> p.corr]
IsPairLine(l) == l.note = ""
PairLines(rs) == SelectSeq(rs, IsPairLine)

BestHeader == Message("Best FSK pairs (anti-correlation, more negative = better):")
NoStrong == Message("No strong FSK pairs detected with standard shifts.")
Trying == Message("Trying arbitrary shifts (50-1000 Hz)...")
FoundHeader == Message("Found pairs with arbitrary shifts:")

\* lines 113-155, 169-171: the standard search and its sort
TpSearch ==
    /\ dec = "pairs" /\ pc = "entry"
    /\ best_pairs' = ByCorr(StandardPairs)
    /\ i' = 0
    /\ IF best_pairs' # << >>
       THEN results' = << BestHeader >> /\ pc' = "report"
       ELSE results' = << NoStrong, Trying >> /\ pc' = "arbitrary"
    /\ UNCHANGED << dec, origin, decoder, samples, block_size, hop_size,
                    n_blocks, powers, magnitudes, correlations, mark_freq,
                    space_freq, raised, crossings, intervals, best_score,
                    best_baud, spectrogram >>

\* one iteration of the report loop of lines 159-168
TpReport ==
    /\ dec = "pairs" /\ pc = "report" /\ i < Len(best_pairs)
    /\ LET p    == best_pairs[i + 1]
           seen == {StdKey(PairLines(results)[k]) :
                      k \in 1..Len(PairLines(results))}
       IN IF StdKey(p) \in seen
          THEN UNCHANGED << results, pc >>
          ELSE /\ results' = Append(results, PairLine(p))
               /\ pc' = IF Len(PairLines(results)) + 1 >= MaxReport
                        THEN "caller" ELSE "report"
    /\ i' = i + 1
    /\ UNCHANGED << dec, origin, decoder, front >>

\* the report loop runs out of pairs
TpReportEnd ==
    /\ dec = "pairs" /\ pc = "report" /\ i = Len(best_pairs)
    /\ pc' = "caller"
    /\ UNCHANGED << dec, i, results, origin, decoder, front >>

\* lines 173-199: the search over arbitrary shifts and its sort
TpArbitrary ==
    /\ dec = "pairs" /\ pc = "arbitrary"
    /\ best_pairs' = ByCorr(ArbitraryPairs)
    /\ i' = 0
    /\ IF best_pairs' # << >>
       THEN results' = Append(results, FoundHeader) /\ pc' = "report_arb"
       ELSE UNCHANGED results /\ pc' = "caller"
    /\ UNCHANGED << dec, origin, decoder, samples, block_size, hop_size,
                    n_blocks, powers, magnitudes, correlations, mark_freq,
                    space_freq, raised, crossings, intervals, best_score,
                    best_baud, spectrogram >>

\* one iteration of the report loop of lines 204-213
TpReportArb ==
    /\ dec = "pairs" /\ pc = "report_arb" /\ i < Len(best_pairs)
    /\ LET p    == best_pairs[i + 1]
           seen == {ArbKey(PairLines(results)[k]) :
                      k \in 1..Len(PairLines(results))}
       IN IF ArbKey(p) \in seen
          THEN UNCHANGED << results, pc >>
          ELSE /\ results' = Append(results, PairLine(p))
               /\ pc' = IF Len(PairLines(results)) + 1 >= MaxReport
                        THEN "caller" ELSE "report_arb"
    /\ i' = i + 1
    /\ UNCHANGED << dec, origin, decoder, front >>

\* the second report loop runs out of pairs
TpReportArbEnd ==
    /\ dec = "pairs" /\ pc = "report_arb" /\ i = Len(best_pairs)
    /\ pc' = "caller"
    /\ UNCHANGED << dec, i, results, origin, decoder, front >>

\* spectrograms of the search runs: at most MaxTones bin pairs carry a keyed
\* signal, each with its anti-correlation, active frames and energy
MaxTones == 2
TonePairs == {<< 2000, 1850 >>, << 2000, 1700 >>, << 1000, 800 >>, << 2150, 1300 >>}
ToneCorrs == {-90, -60, -40, -30}

\* a keyed pair is active in enough frames, or strongly keyed in too few
Keyed ==
    {[mark |-> tp[1], space |-> tp[2], corr |-> c, active |-> 10,
      energy |-> 5] : tp \in TonePairs, c \in ToneCorrs}
      \cup {[mark |-> tp[1], space |-> tp[2], corr |-> -90, active |-> 9,
             energy |-> 5] : tp \in TonePairs}

RECURSIVE UpTo(_)
UpTo(n) ==
    IF n = 0 THEN {{ }}
    ELSE UpTo(n - 1)
           \cup {S \cup {r} : S \in UpTo(n - 1),
                              r \in Keyed}

\* a wide keyed signal: n neighbouring bins, each keyed against the bin
\* 850 Hz below it, with anti-correlations that differ from bin to bin
MaxComb == 6
CombCorrs == << -40, -90, -60 >>
Comb(n) ==
    {[mark |-> 1100 + 50 * k, space |-> 250 + 50 * k,
      corr |-> CombCorrs[(k % 3) + 1], active |-> 10, energy |-> 5] :
        k \in 0..(n - 1)}

Spectrograms ==
    {S \in UpTo(MaxTones) :
        \A r1, r2 \in S : (r1.mark = r2.mark /\ r1.space = r2.space) => r1 = r2}
      \cup {Comb(n) : n \in 1..MaxComb}

InitTones ==
    /\ dec = "pairs" /\ pc = "entry"
    /\ spectrogram \in Spectrograms
    /\ samples = << >> /\ block_size = 1 /\ hop_size = 1 /\ n_blocks = 0
    /\ powers = << >> /\ magnitudes = << >> /\ correlations = << >>
    /\ mark_freq = 0 /\ space_freq = 0 /\ raised = ""
    /\ crossings = << >> /\ intervals = << >> /\ best_score = Inf
    /\ best_baud = NoBaud /\ best_pairs = << >>
    /\ live = FALSE /\ corr = << >> /\ bpb = 1 /\ i = 0 /\ bit_phase = 0
    /\ prev_corr = 0 /\ state = "idle" /\ bit_count = 0 /\ accumulator = 0
    /\ shift = "letters" /\ text = << >> /\ calls = << >> /\ results = << >>
    /\ codes = << >> /\ ncorr = 0 /\ nbits = 0 /\ why = "" /\ parked = << >>
    /\ origin = << >>

NextTones ==
    TpSearch \/ TpReport \/ TpReportEnd \/ TpArbitrary \/ TpReportArb \/ TpReportArbEnd
SpecTones == InitTones /\ [][NextTones]_vars

\* some pair of the standard shifts has an anti-correlation below the
\* threshold
StandardFound ==
    \E k \in 1..Len(TestFreqs), s \in 1..Len(Shifts) :
        /\ TestFreqs[k] - Shifts[s] >= 200
        /\ Stat(BinOf(TestFreqs[k]), BinOf(TestFreqs[k] - Shifts[s])).active >= 10
        /\ Stat(BinOf(TestFreqs[k]), BinOf(TestFreqs[k] - Shifts[s])).corr < -30

\* C16: when no pair (f1, f1 - shift) over the standard shifts has a
\* correlation below the threshold, the search reports that no pair was found
\* and reports no pair chosen in another way.
C16_Undetermined ==
    (dec = "pairs" /\ pc # "entry" /\ ~StandardFound) =>
        /\ results[1] = NoStrong
        /\ PairLines(results) = << >>

-----------------------------------------------------------------------------
(* Pure tones through the correlator *)

\* block k (from 1) of the stream correlator's buffer
BlockOf(k) == Slice(samples, (k - 1) * block_size, k * block_size)

\* the block is a pure sinusoid of frequency freq, at least one period of
\* it, louder than silence
PureTone(k, freq) ==
    /\ \E amp \in ToneAmps, ph \in {0, 1} :
          BlockOf(k) = Scaled(amp, Tone(freq, ph, block_size))
    /\ block_size >= Len(Period(freq, 0))
    /\ powers[k][1] + powers[k][2] > PowerEps

\* C18: a block holding a pure sinusoid at the mark frequency has a
\* correlation value within 0.05 of +1, one holding a pure sinusoid at the
\* space frequency a value within 0.05 of -1.
C18_PureTones ==
    (dec = "stream" /\ FrontReturned) =>
        \A k \in 1..Len(correlations) :
            /\ PureTone(k, mark_freq) =>
                  100 * correlations[k][1] >= 95 * correlations[k][2]
            /\ PureTone(k, space_freq) =>
                  100 * correlations[k][1] <= -95 * correlations[k][2]

-----------------------------------------------------------------------------
(* The framer of decode_with_pll as a transition relation *)

\* this step of the loop made a bit decision
Decision == nbits' = nbits + 1

\* the framer's variables are as they were
FramerSame ==
    /\ state' = state /\ bit_count' = bit_count /\ accumulator' = accumulator
    /\ shift' = shift /\ text' = text

\* the step goes from state a to state b
Edge(a, b) == state = a /\ state' = b

\* C19: the framer of decode_with_pll changes state only at a bit decision,
\* and only so: idle stays idle on mark and goes to start_verify on space,
\* with bit count and accumulator reset; start_verify goes to data on space
\* and to idle on mark; data stays data for the first four data bits and goes
\* to stop after the fifth; stop takes one decision and goes to idle.  A
\* character is appended only on the step from stop to idle.
C19_Framer ==
    [][ (dec = "pll" /\ pc = "loop" /\ pc' = "loop") =>
          /\ ~Decision => FramerSame
          /\ Decision =>
               /\ state = "idle" =>
                    IF prev_corr' > 0 THEN FramerSame
                    ELSE /\ Edge("idle", "start_verify")
                         /\ bit_count' = 0 /\ accumulator' = 0
               /\ state = "start_verify" =>
                    IF prev_corr' > 0 THEN Edge("start_verify", "idle")
                    ELSE Edge("start_verify", "data")
               /\ state = "data" =>
                    /\ bit_count \in 0..4
                    /\ IF bit_count < 4
                       THEN Edge("data", "data") /\ bit_count' = bit_count + 1
                       ELSE Edge("data", "stop")
               /\ state = "stop" => Edge("stop", "idle")
               /\ state \in {"idle", "start_verify", "data", "stop"}
          /\ text' # text =>
               /\ Decision /\ Edge("stop", "idle")
               /\ Len(text') = Len(text) + 1
               /\ SubSeq(text', 1, Len(text)) = text ]_vars

\* a character has been appended and the next frame's start is being verified
C19_Witness ==
    /\ dec = "pll" /\ pc = "loop" /\ live
    /\ text # << >> /\ state = "start_verify" /\ bpb = 2

-----------------------------------------------------------------------------
(* The phase accumulator of decode_with_pll *)

-----------------------------------------------------------------------------
(* The phase correction of decode_with_pll *)

\* the phase after the correction of this step and before its advance, read
\* back from the phase the step leaves
AfterCorrection ==
    bit_phase' - (PhaseOne \div bpb) + (IF Decision THEN PhaseOne ELSE 0)

\* the sample of this step and the one before lie beyond +0.15 and -0.15 on
\* opposite sides
Opposite ==
    \/ (prev_corr > 15 /\ prev_corr' < -15)
    \/ (prev_corr < -15 /\ prev_corr' > 15)

\* distance of the phase p to the nearest bit boundary
Distance(p) == IF 2 * p <= PhaseOne THEN p ELSE PhaseOne - p

\* C21: on a detected transition with phase p in [0, 1) the phase becomes
\* p - 0.05 * e, where e = p if p <= 0.5 and p - 1 otherwise; the corrected
\* phase stays in [0, 1), its distance to the nearest bit boundary is 0.95
\* times the distance before, and a phase of 0 stays 0.
C21_Correction ==
    [][ (dec = "pll" /\ pc = "loop" /\ pc' = "loop" /\ Opposite) =>
          LET p == bit_phase
              e == IF 2 * p <= PhaseOne THEN p ELSE p - PhaseOne
              q == AfterCorrection
          IN /\ 0 <= p /\ p < PhaseOne
             /\ 20 * (p - q) = e
             /\ 0 <= q /\ q < PhaseOne
             /\ 20 * Distance(q) = 19 * Distance(p)
             /\ (2 * p <= PhaseOne) <=> (2 * q <= PhaseOne)
             /\ p = 0 => q = 0 ]_vars

\* one correction has been made, from a phase of 0.75
C21_Witness ==
    /\ dec = "pll" /\ pc = "loop" /\ live /\ bpb = 4 /\ ncorr = 1
    /\ bit_phase % (PhaseOne \div 4) = PhaseOne \div 80

-----------------------------------------------------------------------------
(* Order of the data bits *)

\* the bit a PLL decision reads from the sample of this step
SampleBit == IF prev_corr' > 0 THEN 1 ELSE 0

\* data bit n (from 0) as a fixed-timing decoder samples it for a frame that
\* starts at i: the mean of the samples around the centre is positive
DataBit(n) ==
    LET ci == i + (((3 + 2 * n) * bpb) \div 2)
    IN IF SumSlice(corr, Max(0, ci - 1), Min(Len(corr), ci + 2)) > 0 THEN 1 ELSE 0

\* C22: the five data bits, in temporal order b0..b4, give the code
\* b0 + 2*b1 + 4*b2 + 8*b3 + 16*b4, in the PLL framer (bit by bit: data bit
\* number bit_count adds bit * 2^bit_count to an accumulator that holds only
\* the bits below it, and the code decoded in stop is the accumulator) and in
\* the fixed-timing decoders; during data the bit count stays in 0..4 and the
\* accumulator in 0..31.
C22_LsbFirst ==
    [][ /\ (dec = "pll" /\ pc = "loop" /\ pc' = "loop") =>
            /\ state = "data" =>
                 /\ bit_count \in 0..4 /\ accumulator \in 0..31
                 /\ accumulator < Pow(2, bit_count)
            /\ (state = "start_verify" /\ state' = "data") =>
                 bit_count' = 0 /\ accumulator' = 0
            /\ (state = "data" /\ Decision) =>
                 /\ accumulator' = accumulator + SampleBit * Pow(2, bit_count)
                 /\ accumulator' \in 0..31
            /\ (state = "stop" /\ Decision) =>
                 codes' = Append(codes, accumulator)
            /\ codes' # codes => state = "stop" /\ Decision
        /\ (dec \in {"rtty", "simple"} /\ pc = "loop" /\ codes' # codes) =>
            codes' = Append(codes, DataBit(0) + 2 * DataBit(1) + 4 * DataBit(2)
                                     + 8 * DataBit(3) + 16 * DataBit(4)) ]_vars

\* the PLL framer has decoded code 22 (bits 0, 1, 1, 0, 1 in temporal order)
C22_Witness ==
    /\ dec = "pll" /\ pc = "loop" /\ codes # << >> /\ codes[Len(codes)] = 22

-----------------------------------------------------------------------------
(* The fixed-timing decoders with windows that grow with the bit period:    *)
(* decode_with_large_goertzel (rtty_measure_baud.py), from its loop on, as  *)
(* "large", and decode_baudot (rtty_iq_decode.py) as "baudot".  bpb is      *)
(* hops_per_bit resp. samples_per_bit.                                      *)

WideThreshold == 15

Wide == dec \in {"large", "baudot"} /\ ~live /\ pc = "loop"

\* int(hops_per_bit * 0.25)
Quarter(b) == b \div 4

\* check_end = int(start + hops_per_bit * 0.5), center_start likewise
CheckEnd(start, b) == start + (b \div 2)

\* the slice of the samples the start bit is verified on: [lo, hi)
StartWindow(d, c, start, b) ==
    IF d = "large" THEN << start, CheckEnd(start, b) >>
    ELSE << Max(0, CheckEnd(start, b) - Quarter(b)),
            Min(Len(c), CheckEnd(start, b) + Quarter(b)) >>

\* faulty variant: the start bit is never verified
StartFailsNever(d, c, start, b) == FALSE

\* the verification rejects the start bit: the mean over the window is
\* >= -threshold (large) or >= 0 (baudot); the mean of an empty window is nan
\* and no comparison with it is true
StartFails(d, c, start, b) ==
    LET w == StartWindow(d, c, start, b)
    IN /\ w[1] < w[2]
       /\ IF d = "large"
          THEN SumSlice(c, w[1], w[2]) >= -WideThreshold * (w[2] - w[1])
          ELSE SumSlice(c, w[1], w[2]) >= 0

\* the slice a data bit with centre ci is averaged over: [lo, hi)
BitWindow(d, c, ci, b) ==
    IF d = "large"
    THEN << Max(0, ci - Max(1, Quarter(b))), Min(Len(c), ci + Max(1, Quarter(b)) + 1) >>
    ELSE << Max(0, ci - Quarter(b)), Min(Len(c), ci + Quarter(b)) >>

\* 1 if np.mean(correlation[lo:hi]) > 0 else 0
WideBit(d, c, ci, b) ==
    LET w == BitWindow(d, c, ci, b)
    IN IF w[1] < w[2] /\ SumSlice(c, w[1], w[2]) > 0 THEN 1 ELSE 0

RECURSIVE WideAssemble(_, _, _, _, _)
WideAssemble(d, c, start, b, n) ==
    IF n >= 5 THEN 0
    ELSE WideBit(d, c, Center(start, n, b), b) * Pow(2, n)
           + WideAssemble(d, c, start, b, n + 1)

WideCandidate == i < Len(corr) /\ At(corr, i) < -WideThreshold

\* while i < len(correlation) is false
WideEnd == Wide /\ i >= Len(corr) /\ LeaveLoop("end")

\* correlation[i] >= -threshold: i += 1; continue
WideSkip ==
    /\ Wide /\ i < Len(corr) /\ At(corr, i) >= -WideThreshold
    /\ i' = i + 1
    /\ UNCHANGED << shift, text, codes >>
    /\ StayInLoop

\* check_end >= len(correlation): break
WideStartCut ==
    /\ Wide /\ WideCandidate
    /\ CheckEnd(i, bpb) >= Len(corr)
    /\ LeaveLoop("start_cut")

\* the start bit does not hold: i += 1; continue
WideFalseStart ==
    /\ Wide /\ WideCandidate
    /\ CheckEnd(i, bpb) < Len(corr)
    /\ StartFails(dec, corr, i, bpb)
    /\ i' = i + 1
    /\ UNCHANGED << shift, text, codes >>
    /\ StayInLoop

\* a data bit centre is past the end: break
WideFrameCut ==
    /\ Wide /\ WideCandidate
    /\ CheckEnd(i, bpb) < Len(corr)
    /\ ~StartFails(dec, corr, i, bpb)
    /\ NBits(corr, i, bpb) < 5
    /\ LeaveLoop("frame_cut")

\* five data bits sampled: decode the code, skip to the next frame
WideFrame ==
    /\ Wide /\ WideCandidate
    /\ CheckEnd(i, bpb) < Len(corr)
    /\ ~StartFails(dec, corr, i, bpb)
    /\ NBits(corr, i, bpb) = 5
    /\ LET code == WideAssemble(dec, corr, i, bpb, 0) IN
         /\ shift' = NewShift(code, shift)
         /\ text' = NewText(code, shift, text)
         /\ codes' = Append(codes, code)
    /\ i' = FrameEnd(i, bpb)
    /\ StayInLoop

WideNext ==
    WideEnd \/ WideSkip \/ WideStartCut \/ WideFalseStart \/ WideFrameCut \/ WideFrame

\* bit periods of these runs, in hops resp. samples
WideBpbSet == {1, 2, 4}

\* streams of these runs: arbitrary short arrays, silence, and framed streams
\* cut anywhere in their last frame, after a glitch or without one
WideGlitches == {<< >>, << -100, 100, 100 >>, << -100, -100, 100, 100, 100 >>}

WideInput(c, org, b) ==
    \/ org = << >> /\ c \in SeqsUpTo(FixVals, MaxNoise) \cup {Rep(0, n) : n \in 0..MaxSilence}
    \/ /\ org \in SeqsUpTo(FrameCodes, MaxFrames) \ {<< >>}
       /\ \E g \in WideGlitches, f \in Prefixes(Render(org, b, StopBlocks(b))) :
             /\ Len(f) > (Len(org) - 1) * FrameLen(b)
             /\ c = g \o f

InitWide ==
    /\ dec \in {"large", "baudot"} /\ live = FALSE
    /\ bpb \in WideBpbSet
    /\ origin \in SeqsUpTo(FrameCodes, MaxFrames)
    /\ WideInput(corr, origin, bpb)
    /\ calls = << >> /\ results = << >>
    /\ parked = << >> /\ FrontIdle
    /\ Locals

\* the four fixed-timing decoders
InitSched == InitFixed \/ InitWide
NextSched == FixedNext \/ WideNext
SpecSched == InitSched /\ [][NextSched]_vars

\* floor(s + (1.5 + n) * B) and floor(s + 7.5 * B)
SampleIndex(st, n, b) == st + (((3 + 2 * n) * b) \div 2)
ResumeIndex(st, b) == st + ((15 * b) \div 2)

\* the bit the running decoder reads with its window centred at index ci
BitAround(ci) ==
    IF dec \in {"rtty", "simple"} THEN AvgBit(corr, ci)
    ELSE WideBit(dec, corr, ci, bpb)

\* this step completes a frame
FrameDone == pc = "loop" /\ codes' # codes

\* C23: for a frame accepted at start index s with bit period B, data bit n
\* is sampled at index floor(s + (1.5 + n) * B), and after every completed
\* frame, whether it appended a character, changed the shift or was dropped,
\* the scan resumes at floor(s + 7.5 * B).
C23_Schedule ==
    [][ FrameDone =>
          /\ codes' = Append(codes,
                 BitAround(SampleIndex(i, 0, bpb))
                   + 2 * BitAround(SampleIndex(i, 1, bpb))
                   + 4 * BitAround(SampleIndex(i, 2, bpb))
                   + 8 * BitAround(SampleIndex(i, 3, bpb))
                   + 16 * BitAround(SampleIndex(i, 4, bpb)))
          /\ \A n \in 0..4 : SampleIndex(i, n, bpb) < Len(corr)
          /\ i' = ResumeIndex(i, bpb)
          /\ pc' = "loop" ]_vars

\* three frames are done at four hops per bit: a shift change, a dropped
\* code and a character, and the scan stands at the end of the third
C23_Witness ==
    /\ dec = "large" /\ bpb = 4 /\ pc = "loop"
    /\ codes = << FIGS, 0, 10 >> /\ text = << Lookup(10, "figures") >>
    /\ i = 3 * ResumeIndex(0, 4)

-----------------------------------------------------------------------------
(* Start-bit qualification of the fixed-timing decoders *)

\* the position i is below minus the threshold of the running decoder
BelowThreshold ==
    i < Len(corr) /\ corr[i + 1] < (IF dec = "rtty" THEN -20 ELSE -15)

\* the samples the running decoder verifies the start bit on lie in the stream
CanVerify ==
    CASE dec = "rtty" -> i + bpb < Len(corr)
      [] dec \in {"large", "baudot"} -> i + (bpb \div 2) < Len(corr)
      [] OTHER -> TRUE

\* positions lo..hi-1 (from 0) of the stream that exist
Span(lo, hi) == {k \in 0..(Len(corr) - 1) : lo <= k /\ k < hi}

\* sum of the samples at the positions P
RECURSIVE SumAt(_)
SumAt(P) ==
    IF P = {} THEN 0
    ELSE LET k == CHOOSE k \in P : TRUE IN corr[k + 1] + SumAt(P \ {k})

\* the start bit at i is sustained space for the running decoder: at least
\* half of the bit period is negative (decode_rtty), the mean over the first
\* half of the bit period is below minus the threshold
\* (decode_with_large_goertzel), the mean over the middle half of the bit
\* period is negative (decode_baudot); decode_simple does not look again
Sustained ==
    CASE dec = "rtty" ->
           2 * Cardinality({k \in Span(i, i + bpb) : corr[k + 1] < 0}) >= bpb
      [] dec = "large" ->
           \/ Span(i, i + (bpb \div 2)) = {}
           \/ SumAt(Span(i, i + (bpb \div 2)))
                < -15 * Cardinality(Span(i, i + (bpb \div 2)))
      [] dec = "baudot" ->
           LET mid == i + (bpb \div 2)
               P   == Span(mid - (bpb \div 4), mid + (bpb \div 4))
           IN P = {} \/ SumAt(P) < 0
      [] OTHER -> TRUE

-----------------------------------------------------------------------------
(* The report of the standard tone-pair search *)

\* the pairs of the standard report printed so far
Reported == IF results # << >> /\ results[1] = BestHeader THEN PairLines(results) ELSE << >>

\* mark rounded to its 20 Hz bucket, and the shift
Bucket(l) == << 20 * RoundHalfEven(l.mark, 20), l.shift >>

\* the anti-correlation the spectrogram yields for the tones mark_f and
\* mark_f - sh, when the pair qualifies; 0 when it does not
Qualified(mark_f, sh) ==
    LET st == Stat(BinOf(mark_f), BinOf(mark_f - sh))
    IN IF mark_f - sh >= 200 /\ st.active >= 10 /\ st.corr < -30 THEN st.corr ELSE 0

\* C25: every pair the standard search reports has space = mark - shift with
\* a standard shift, space >= 200 Hz, at least 10 active frames and an
\* anti-correlation below -0.3; the pairs are reported most negative first;
\* no two share the key (mark rounded to 20 Hz, shift), and the pair kept for
\* a key is the most negative of that key; at most 15 are reported.
C25_Report ==
    LET L == Reported IN
    /\ \A k \in 1..Len(L) :
         /\ L[k].shift \in {170, 200, 425, 450, 850}
         /\ L[k].space = L[k].mark - L[k].shift
         /\ L[k].space >= 200
         /\ L[k].mark \in 300..3199 /\ L[k].mark % 5 = 0
         /\ Qualified(L[k].mark, L[k].shift) = L[k].corr
         /\ L[k].corr < -30
         /\ \A m \in 300..3199 :
               (m % 5 = 0 /\ 20 * RoundHalfEven(m, 20) = Bucket(L[k])[1]) =>
                   L[k].corr <= Qualified(m, L[k].shift)
    /\ \A k \in 1..(Len(L) - 1) : L[k].corr <= L[k + 1].corr
    /\ \A j, k \in 1..Len(L) : j # k => Bucket(L[j]) # Bucket(L[k])
    /\ Len(L) <= 15

\* the report stopped at 15 pairs with pairs left over, and the pairs
\* reported differ in their anti-correlation
C25_Witness ==
    /\ dec = "pairs" /\ pc = "caller"
    /\ Len(Reported) = 15 /\ i < Len(best_pairs)
    /\ Reported[1].corr < Reported[15].corr

-----------------------------------------------------------------------------
(* Termination of the fixed-timing scan *)

\* streams of the runs followed to their end: arbitrary arrays of at most
\* TermNoise samples, and framed streams of at most TermFrames frames cut
\* anywhere in the last, after a glitch or without one
TermNoise == 5
TermFrames == 2

TermInput(c, org, b) ==
    \/ org = << >> /\ c \in SeqsUpTo(FixVals, TermNoise)
    \/ /\ org \in SeqsUpTo({0, 10, FIGS}, TermFrames) \ {<< >>}
       /\ \E g \in {<< >>, << -100, 100, 100 >>},
             f \in Prefixes(Render(org, b, StopBlocks(b))) :
             /\ Len(f) > (Len(org) - 1) * FrameLen(b)
             /\ c = g \o f

InitTerm ==
    /\ dec \in {"rtty", "simple", "large", "baudot"} /\ live = FALSE
    /\ bpb \in FixBpbSet \cup WideBpbSet
    /\ origin \in SeqsUpTo({0, 10, FIGS}, TermFrames)
    /\ TermInput(corr, origin, bpb)
    /\ calls = << >> /\ results = << >>
    /\ parked = << >> /\ FrontIdle
    /\ Locals

\* the four fixed-timing decoders, each iteration of the loop taken in turn
SpecSchedFair == InitTerm /\ [][NextSched]_vars /\ WF_vars(NextSched)

\* C26: on every finite stream and for every blocks_per_bit >= 1, an
\* iteration of a fixed-timing decoder's loop leaves the loop or moves the
\* scan index up: by 1 on a skipped position or false start, to
\* floor(start + 7.5 * blocks_per_bit) > start after a frame; an iteration
\* needs an index below the length of the stream, so there are at most that
\* many, the index never goes back, and the decoder returns.
C26_Terminates ==
    /\ [][ (pc = "loop" /\ dec \in {"rtty", "simple", "large", "baudot"}) =>
             /\ bpb >= 1 /\ i >= 0
             /\ pc' = "loop" =>
                  /\ i < Len(corr) /\ i' > i
                  /\ IF codes' # codes
                     THEN i' = i + ((15 * bpb) \div 2)
                     ELSE i' = i + 1
             /\ pc' # "loop" => pc' = "caller" /\ i' = i ]_vars
    /\ <>(pc = "caller")

\* decode_baudot has scanned a stream with frames in it to the end
C26_Witness ==
    /\ dec = "baudot" /\ pc = "caller" /\ why = "end"
    /\ Len(codes) >= 2 /\ i >= Len(corr) /\ Len(corr) > 0

-----------------------------------------------------------------------------
(* Bit decisions per frame in decode_with_pll *)

\* the number of bit decisions the frame under way has consumed
FramePos ==
    CASE state = "idle" -> 0
      [] state = "start_verify" -> 1
      [] state = "data" -> 2 + bit_count
      [] state = "stop" -> 7

\* bit decisions consumed by the frames decoded and the frame under way
Consumed == 8 * Len(codes) + FramePos

\* C27: a frame that yields a character consumes exactly 8 consecutive bit
\* decisions: the space that leaves idle, the space that passes
\* start_verify, five data bits (the 3rd to 7th decisions) and one stop
\* decision; so after n bit decisions the text holds at most floor(n/8)
\* characters.
C27_Budget ==
    /\ [](dec = "pll" => /\ Consumed <= nbits
                         /\ Len(text) <= Len(codes)
                         /\ 8 * Len(text) <= nbits
                         /\ state = "data" => FramePos \in 2..6)
    /\ [][ (dec = "pll" /\ pc = "loop" /\ pc' = "loop") =>
             /\ Decision =>
                  \/ Consumed' = Consumed + 1
                  \/ /\ state \in {"idle", "start_verify"} /\ state' = "idle"
                     /\ prev_corr' > 0 /\ codes' = codes
             /\ ~Decision => Consumed' = Consumed
             /\ codes' # codes => FramePos = 7 /\ FramePos' = 0
             /\ (state = "data" /\ Decision) =>
                  accumulator' = accumulator + SampleBit * Pow(2, FramePos - 2) ]_vars

\* sixteen bit decisions have given two characters
C27_Witness ==
    /\ dec = "pll" /\ pc = "loop" /\ live
    /\ nbits = 16 /\ Len(text) = 2

-----------------------------------------------------------------------------
(* The stop bit *)

\* the stream c with the samples of the stop bit of the frame that starts at
\* st, positions floor(st + 6 * B) up to floor(st + 7.5 * B), set to v
WithStop(c, st, b, v) ==
    [k \in 1..Len(c) |->
        IF st + 6 * b <= k - 1 /\ k - 1 < st + ((15 * b) \div 2) THEN v ELSE c[k]]

\* C28: the stop bit is consumed but not checked.  In stop the PLL framer
\* decodes the accumulated code and goes to idle whatever the stop decision
\* is, so text and shift do not depend on it; and the code a fixed-timing
\* decoder reads for a frame does not depend on the samples of the frame's
\* stop bit.
C28_StopUnchecked ==
    [][ /\ (dec = "pll" /\ pc = "loop" /\ state = "stop" /\ Decision) =>
             /\ state' = "idle"
             /\ codes' = Append(codes, accumulator % 32)
             /\ shift' = NewShift(accumulator % 32, shift)
             /\ text' = NewText(accumulator % 32, shift, text)
        /\ (dec \in {"rtty", "simple"} /\ pc = "loop" /\ codes' # codes) =>
             \A v \in {-100, 100} :
                codes' = Append(codes, FrameCode(WithStop(corr, i, bpb, v), i, bpb)) ]_vars

-----------------------------------------------------------------------------
(* The shift and the control characters *)

\* the characters of line feed, space and carriage return
ControlChar(code) == IF code = 2 THEN "\n" ELSE IF code = 4 THEN " " ELSE "\r"

\* C29: the shift changes only on a step that decodes code 27 or 31; a step
\* that decodes any other code, a false start, an idle or a data step leaves
\* it unchanged; codes 2, 4 and 8 append line feed, space and carriage
\* return in either shift, and code 0 appends nothing.
C29_ShiftOnlyOnShiftCodes ==
    [][ /\ shift' # shift => \E code \in ShiftCodes : Decoded(code)
        /\ \A code \in 0..31 \ ShiftCodes : Decoded(code) => shift' = shift
        /\ \A code \in {2, 4, 8} : Decoded(code) => text' = Append(text, ControlChar(code))
        /\ Decoded(0) => text' = text ]_vars

\* FIGS, a space, then a digit code: the digit came out after the space
C29_Witness ==
    codes = << FIGS, 4, 1 >> /\ shift = "figures" /\ text = << " ", "3" >>

-----------------------------------------------------------------------------
(* The dead band of the transition detector *)

\* the correlation c is within the dead band, -0.15 to +0.15 inclusive
InDeadBand(c) == -15 <= c /\ c <= 15

\* the phase after the nominal increment and the wrap alone
Nominal ==
    IF bit_phase + (PhaseOne \div bpb) >= PhaseOne
    THEN bit_phase + (PhaseOne \div bpb) - PhaseOne
    ELSE bit_phase + (PhaseOne \div bpb)

\* C30: in decode_with_pll the phase is corrected at a sample exactly when
\* the previous sample and this one lie strictly beyond +0.15 and -0.15 on
\* opposite sides; a sample within the dead band triggers no correction,
\* neither as this sample nor as the previous one; and at a sample without
\* a correction the phase changes by the increment and the wrap only.
C30_DeadBand ==
    [][ (dec = "pll" /\ pc = "loop" /\ i' = i + 1) =>
          /\ ncorr' # ncorr => Opposite
          /\ (Opposite /\ bit_phase # 0) => ncorr' = ncorr + 1 /\ bit_phase' # Nominal
          /\ ~Opposite => bit_phase' = Nominal /\ ncorr' = ncorr
          /\ (InDeadBand(prev_corr) \/ InDeadBand(prev_corr')) =>
                bit_phase' = Nominal /\ ncorr' = ncorr ]_vars

\* a sample of exactly 0.15 has been taken at a phase of 0.25, and the phase
\* is uncorrected
C30_Witness ==
    /\ dec = "pll" /\ pc = "loop" /\ live /\ bpb = 4 /\ i = 2
    /\ prev_corr = 15 /\ ncorr = 0 /\ bit_phase = PhaseOne \div 2

=============================================================================
